---- MODULE Spec2Model ----
(***************************************************************************)
(* Model of the Jellyfin protocol mapping of notflix-server.               *)
(*                                                                         *)
(* Two implementations live in the repository: the package-level handlers  *)
(* of src/jellyfin.go (package main) and the methods of src/jellyfin/      *)
(* item.go (package jellyfin).  Where both define a function of the same   *)
(* name, the definition modelling src/jellyfin.go carries the prefix       *)
(* main_.                                                                  *)
(*                                                                         *)
(* Strings are sequences of one-character strings, so that prefixes,       *)
(* separators and splitting are computed as the code computes them.        *)
(***************************************************************************)
EXTENDS Integers, Sequences, FiniteSets, TLC

\* ------------------------------------------------------------------ bounds

\* longest internal id of a looked-up entity
MaxIdLen == 2
\* most seasons of the show of the lookup library
MaxSeasons == 2
\* most records handed to the sort stage
MaxSortLen == 3
\* most candidate records of a paginated listing
MaxPageLen == 10
\* most items in the catalog of the listing handlers
MaxItems == 2
\* workers that serve episode requests at the same time
MaxWorkers == 2
\* most requests one worker serves, one after the other
MaxRequests == 2
\* longest audio language a descriptor carries
MaxLanguageLen == 4
\* most rescans of the library while one listing request is in flight
MaxRescans == 2

\* ----------------------------------------------------------------- strings

\* characters internal ids are made of, the separator among them
IdChars == {"a", "b", "_"}

RECURSIVE StringsUpTo(_, _)
StringsUpTo(chars, n) ==
    IF n = 0 THEN {<<>>}
    ELSE LET shorter == StringsUpTo(chars, n - 1)
         IN  shorter \cup {s \o <<c>> : s \in shorter, c \in chars}

\* strings.Index(s, sep) for a one-character sep; 0 stands for Go's -1
Index(s, sep) ==
    IF \E k \in 1..Len(s) : s[k] = sep
    THEN CHOOSE k \in 1..Len(s) : s[k] = sep /\ \A m \in 1..(k - 1) : s[m] # sep
    ELSE 0

\* strings.Split(s, sep) for a one-character sep
RECURSIVE Split(_, _)
Split(s, sep) ==
    LET i == Index(s, sep)
    IN  IF i = 0 THEN <<s>>
        ELSE <<SubSeq(s, 1, i - 1)>> \o Split(SubSeq(s, i + 1, Len(s)), sep)

\* the characters of the model in byte order, for the comparison of strings
Ascii ==
    <<"+", ",", "-", "0", "1", "2", "3", "4", "5", "6", "7", "8", "9",
      "A", "B", "C", "D", "E", "F", "G", "H", "I", "J", "K", "L", "M",
      "N", "O", "P", "Q", "R", "S", "T", "U", "V", "W", "X", "Y", "Z", "_",
      "a", "b", "c", "d", "e", "f", "g", "h", "i", "j", "k", "l", "m",
      "n", "o", "p", "q", "r", "s", "t", "u", "v", "w", "x", "y", "z">>

Ord(c) == CHOOSE k \in 1..Len(Ascii) : Ascii[k] = c

UpperCase == <<"A","B","C","D","E","F","G","H","I","J","K","L","M","N","O","P","Q","R","S","T","U","V","W","X","Y","Z">>
LowerCase == <<"a","b","c","d","e","f","g","h","i","j","k","l","m","n","o","p","q","r","s","t","u","v","w","x","y","z">>

\* strings.ToLower
ToLower(s) ==
    [k \in 1..Len(s) |->
        IF \E u \in 1..Len(UpperCase) : UpperCase[u] = s[k]
        THEN LowerCase[CHOOSE u \in 1..Len(UpperCase) : UpperCase[u] = s[k]]
        ELSE s[k]]

\* s < t for Go strings: byte-wise lexicographic order
RECURSIVE StrLess(_, _)
StrLess(s, t) ==
    IF Len(t) = 0 THEN FALSE
    ELSE IF Len(s) = 0 THEN TRUE
    ELSE IF s[1] # t[1] THEN Ord(s[1]) < Ord(t[1])
    ELSE StrLess(Tail(s), Tail(t))

\* strings.Contains
Contains(s, sub) ==
    \E k \in 0..(Len(s) - Len(sub)) : SubSeq(s, k + 1, k + Len(sub)) = sub

DecimalDigits == <<"0","1","2","3","4","5","6","7","8","9">>

IsDigit(c) == \E k \in 1..Len(DecimalDigits) : DecimalDigits[k] = c

DigitValue(c) == (CHOOSE k \in 1..Len(DecimalDigits) : DecimalDigits[k] = c) - 1

RECURSIVE DigitsValue(_)
DigitsValue(s) ==
    IF Len(s) = 0 THEN 0
    ELSE DigitsValue(SubSeq(s, 1, Len(s) - 1)) * 10 + DigitValue(s[Len(s)])

\* strconv.ParseInt(s, 10, 64) and strconv.Atoi(s): an optional sign and
\* decimal digits; the numbers of the model are far inside the 64-bit range
ParseInt(s) ==
    LET signed == Len(s) > 0 /\ s[1] \in {"+", "-"}
        body == IF signed THEN Tail(s) ELSE s
        ok == Len(body) > 0 /\ \A k \in 1..Len(body) : IsDigit(body[k])
    IN  IF ~ok THEN [err |-> TRUE, val |-> 0]
        ELSE [err |-> FALSE,
              val |-> IF s[1] = "-" THEN 0 - DigitsValue(body) ELSE DigitsValue(body)]

Atoi(s) == ParseInt(s)

\* strings.ToUpper
ToUpper(s) ==
    [k \in 1..Len(s) |->
        IF \E n \in 1..Len(LowerCase) : LowerCase[n] = s[k]
        THEN UpperCase[CHOOSE n \in 1..Len(LowerCase) : LowerCase[n] = s[k]]
        ELSE s[k]]

HasPrefix(s, p) == Len(s) >= Len(p) /\ SubSeq(s, 1, Len(p)) = p

TrimPrefix(s, p) == IF HasPrefix(s, p) THEN SubSeq(s, Len(p) + 1, Len(s)) ELSE s

\* collection.ItemTypeMovie, collection.ItemTypeShow
ItemTypeMovie == "movie"
ItemTypeShow == "show"

\* ------------------------------------------------------------ id prefixes

itemprefix_separator == "_"

itemprefix_collection == <<"c","o","l","l","e","c","t","i","o","n","_">>
itemprefix_show == <<"s","h","o","w","_">>
itemprefix_season == <<"s","e","a","s","o","n","_">>
itemprefix_episode == <<"e","p","i","s","o","d","e","_">>
itemprefix_collection_playlist ==
    <<"c","o","l","l","e","c","t","i","o","n","p","l","a","y","l","i","s","t","_">>
itemprefix_playlist == <<"p","l","a","y","l","i","s","t","_">>

\* the prefixes usersItemHandler dispatches on
SupportedPrefixes ==
    {itemprefix_collection, itemprefix_collection_playlist, itemprefix_season,
     itemprefix_episode, itemprefix_playlist}

\* idhash.IdHash / idHash: a deterministic one-way token of its input,
\* collision-free on the ids of a library
idHash(s) == <<"#">> \o s

\* item.go trimPrefix: everything after the first separator
trimPrefix(s) ==
    LET i == Index(s, itemprefix_separator)
    IN  IF i # 0 THEN SubSeq(s, i + 1, Len(s)) ELSE s

\* an external id: the type prefix (which ends with the separator) and the
\* internal id, as showsEpisodesHandler builds it (itemprefix_episode + e.Id)
EncodeId(prefix, internal) == prefix \o internal

InternalIds == StringsUpTo(IdChars, MaxIdLen)

\* ---------------------------------------------------------- lookup library

\* The library of the lookup handlers: one shows collection holding one show.
\* A season is [Id, SeasonNo, Episodes].
SeasonIdChars == {"a", "_"}

SeasonIds == StringsUpTo(SeasonIdChars, MaxIdLen) \ {<<>>}

ShowId == <<"s","h">>

VARIABLES
    seasons,        \* i.Seasons of the show: sequence of [Id, SeasonNo]
    request,        \* the item-by-id request being served: [prefix, internal, itemId]
    itemResponse,   \* outcome of the item-by-id lookup (handler "none": none yet)
    listResponse    \* outcome of the seasons listing of the show (status 0: none yet)

lookupVars == <<seasons, request, itemResponse, listResponse>>

VARIABLES
    filterItem,     \* the collection.Item the filter is asked about: [Type, Year]
    filterParams,   \* its query parameters: [includeItemTypes, years]
    filterResult    \* "none" before the call, then "keep" or "drop"

filterVars == <<filterItem, filterParams, filterResult>>

VARIABLES
    sortItems,      \* the records handed to the sort stage, in scan order
    sortParams,     \* its query parameters: [sortBy, sortOrder]
    sortResult      \* [by, items]: who sorted ("none" before the call) and the outcome

sortVars == <<sortItems, sortParams, sortResult>>

VARIABLES
    pageItems,      \* the candidate records of a listing, after scope, search and filter
    pageParams,     \* its query parameters: [sortBy, sortOrder, startIndex, limit]
    pageResponse    \* [status, Items, TotalRecordCount, StartIndex]; status 0: none yet

pageVars == <<pageItems, pageParams, pageResponse>>

VARIABLES
    collections,    \* the catalog: the collections with their items, in scan order
    itemsRequest,   \* the query parameters of a listing request
    itemsResponse   \* [handler, status, branch, Items, TotalRecordCount]

itemsVars == <<collections, itemsRequest, itemsResponse>>

VARIABLES
    nfoFile,        \* per entity, its descriptor file: [exists, Mpaa, Rating]
    nfoPtr,         \* per entity, the Nfo pointer as memory holds it: 0 is nil,
                    \* w the Nfo that worker w allocated for the entity
    nfoObj,         \* per worker and entity, the fields of that Nfo as memory holds them
    pending,        \* per worker, its stores that have not reached memory yet
    pc,             \* per worker, where its request stands: [at, entity]
    requests,       \* per worker, the number of requests it has begun
    nfoRead,        \* per worker and entity, what its request read from the descriptor
    response        \* per worker, the episode record its request is building

nfoVars == <<nfoFile, nfoPtr, nfoObj, pending, pc, requests, nfoRead, response>>

VARIABLES
    mediaFile,      \* the descriptor file of a movie: "missing", "unparseable", "parsed"
    mediaNfo,       \* the Nfo the file parses to, when it does
    mediaItem,      \* the movie Item: [Name, Nfo], Nfo not present when nil
    mediaResult     \* [outcome, status, record]: what the request gave

mediaVars == <<mediaFile, mediaNfo, mediaItem, mediaResult>>

VARIABLES
    library,        \* the snapshot the library index holds: [version, collections]
    snapRequest,    \* the listing request in flight: its handler and parameters
    snapPc,         \* where the request stands: "scope", "list", "done"
    snapScope,      \* searchC of the request: [found, SourceId, version]
    snapResponse    \* [response, version]: the response and the snapshot
                    \* its items were enumerated from

snapVars == <<library, snapRequest, snapPc, snapScope, snapResponse>>

\* image retrieval: the files present on disk, the request being served and
\* the response written
VARIABLES imageDisk, imageRequest, imageResponse

imageVars == <<imageDisk, imageRequest, imageResponse>>

\* descriptor merging: the parsed descriptors of a show and of one of its
\* episodes, and the presentation record a request built from them
VARIABLES mergeShowNfo, mergeEpisodeNfo, mergeRecord

mergeVars == <<mergeShowNfo, mergeEpisodeNfo, mergeRecord>>

vars == <<lookupVars, filterVars, sortVars, pageVars, itemsVars, nfoVars, mediaVars, snapVars, imageVars, mergeVars>>

\* ---------------------------------------------------- components at rest

NoItemsResponse ==
    [handler |-> "none", status |-> 0, branch |-> "none", Items |-> <<>>,
     TotalRecordCount |-> 0]

NoItemResponse ==
    [handler |-> "none", itemId |-> <<>>, branch |-> "", status |-> 0,
     internal |-> <<>>, ID |-> <<>>, Etag |-> <<>>]

\* the lookup handlers at rest, in the behaviours of the other components
LookupIdle ==
    /\ seasons = <<>>
    /\ request = [prefix |-> <<>>, internal |-> <<>>, itemId |-> <<>>]
    /\ itemResponse = NoItemResponse
    /\ listResponse = [status |-> 0, Items |-> <<>>, TotalRecordCount |-> 0]

FilterIdle ==
    /\ filterItem = [Type |-> ItemTypeMovie, Year |-> 0]
    /\ filterParams = [includeItemTypes |-> <<>>, years |-> <<>>]
    /\ filterResult = "none"

SortIdle ==
    /\ sortItems = <<>>
    /\ sortParams = [sortBy |-> <<>>, sortOrder |-> <<>>]
    /\ sortResult = [by |-> "none", items |-> <<>>]

NoNfo ==
    [present |-> FALSE, Title |-> <<>>, Mpaa |-> <<>>, Rating |-> 0,
     streamDetails |-> FALSE,
     Video |-> [Codec |-> <<>>],
     Audio |-> [Language |-> <<>>, Codec |-> <<>>, Channels |-> 0]]

NoRecord ==
    [Name |-> <<>>, OfficialRating |-> <<>>, CommunityRating |-> 0,
     MediaSources |-> <<>>]

MediaIdle ==
    /\ mediaFile = "missing"
    /\ mediaNfo = NoNfo
    /\ mediaItem = [Name |-> <<>>, Nfo |-> NoNfo]
    /\ mediaResult = [outcome |-> "none", status |-> 0, record |-> NoRecord]

SnapIdle ==
    /\ library = [version |-> 0, collections |-> <<>>]
    /\ snapRequest = [handler |-> "none", parentId |-> <<>>, searchTerm |-> <<>>,
                      includeItemTypes |-> <<>>, years |-> <<>>, sortBy |-> <<>>,
                      sortOrder |-> <<>>, startIndex |-> <<>>, limit |-> <<>>]
    /\ snapPc = "idle"
    /\ snapScope = [found |-> FALSE, SourceId |-> 0, version |-> 0]
    /\ snapResponse = [response |-> NoItemsResponse, version |-> 0]

NoImageRequest == [handler |-> "", tag |-> <<>>, itemId |-> <<>>, type |-> ""]

NoImageResponse ==
    [status |-> 0, cacheControl |-> FALSE, location |-> <<>>, served |-> <<>>]

ImageIdle ==
    /\ imageDisk = {}
    /\ imageRequest = NoImageRequest
    /\ imageResponse = NoImageResponse

NoMergeNfo ==
    [present |-> FALSE, Title |-> <<>>, Plot |-> <<>>, Tagline |-> <<>>, Genre |-> <<>>]

NoMergeRecord ==
    [Type |-> "none", Name |-> <<>>, Overview |-> <<>>, Taglines |-> <<>>,
     Genres |-> <<>>, GenreItems |-> <<>>]

MergeIdle ==
    /\ mergeShowNfo = NoMergeNfo
    /\ mergeEpisodeNfo = NoMergeNfo
    /\ mergeRecord = NoMergeRecord

NfoIdle ==
    /\ nfoFile = <<>>
    /\ nfoPtr = <<>>
    /\ nfoObj = <<>>
    /\ pending = <<>>
    /\ pc = <<>>
    /\ requests = <<>>
    /\ nfoRead = <<>>
    /\ response = <<>>

ItemsIdle ==
    /\ collections = <<>>
    /\ itemsRequest = [parentId |-> <<>>, searchTerm |-> <<>>,
                       includeItemTypes |-> <<>>, years |-> <<>>, sortBy |-> <<>>,
                       sortOrder |-> <<>>, startIndex |-> <<>>, limit |-> <<>>]
    /\ itemsResponse = NoItemsResponse

PageIdle ==
    /\ pageItems = <<>>
    /\ pageParams = [sortBy |-> <<>>, sortOrder |-> <<>>, startIndex |-> <<>>,
                     limit |-> <<>>]
    /\ pageResponse = [status |-> 0, Items |-> <<>>, TotalRecordCount |-> 0,
                       StartIndex |-> 0]

\* ------------------------------------------------- item.go usersItemHandler

\* the switch of usersItemHandler: the branch an id is dispatched to
usersItemHandlerBranch(itemId) ==
    LET splitted == Split(itemId, "_")
    IN  IF Len(splitted) = 2
        THEN LET p == splitted[1] \o <<"_">>
             IN  CASE p = itemprefix_collection -> "collection"
                   [] p = itemprefix_collection_playlist -> "collection_playlist"
                   [] p = itemprefix_season -> "season"
                   [] p = itemprefix_episode -> "episode"
                   [] p = itemprefix_playlist -> "playlist"
                   [] OTHER -> "unknown_prefix"
        ELSE "item"

\* name of the dispatch branch of a supported prefix
BranchOf(prefix) ==
    CASE prefix = itemprefix_collection -> "collection"
      [] prefix = itemprefix_collection_playlist -> "collection_playlist"
      [] prefix = itemprefix_season -> "season"
      [] prefix = itemprefix_episode -> "episode"
      [] prefix = itemprefix_playlist -> "playlist"
      [] OTHER -> "unknown_prefix"

\* getItemByID, Collections.GetItemByID over the lookup library: only the
\* show is an item
getItemByID(itemId) == [found |-> itemId = ShowId, Id |-> ShowId]

\* The outcome of usersItemHandler as far as the id decides it: the branch
\* taken and the internal id the branch looks up (trimPrefix of the id for a
\* prefixed branch, the raw id for a plain item).  The status is 500 for an
\* unknown prefix, 200 or 404 for a plain item, and left 0 where the lookup
\* of a prefixed branch decides it.
usersItemHandlerOutcome(itemId) ==
    LET branch == usersItemHandlerBranch(itemId)
    IN  [handler |-> "jellyfin",
         itemId |-> itemId,
         branch |-> branch,
         status |-> IF branch = "unknown_prefix" THEN 500
                    ELSE IF branch # "item" THEN 0
                    ELSE IF getItemByID(itemId).found THEN 200 ELSE 404,
         internal |-> IF branch = "item" THEN itemId
                      ELSE IF branch = "unknown_prefix" THEN <<>>
                      ELSE trimPrefix(itemId),
         ID |-> <<>>,
         Etag |-> <<>>]

\* --------------------------------------------- jellyfin.go lookup handlers

\* getSeasonByID: trims the season prefix, then the first season of that id;
\* 0 when there is none
getSeasonByID(saesonId) ==
    LET id == TrimPrefix(saesonId, itemprefix_season)
    IN  IF \E k \in 1..Len(seasons) : seasons[k].Id = id
        THEN CHOOSE k \in 1..Len(seasons) :
                 /\ seasons[k].Id = id
                 /\ \A m \in 1..(k - 1) : seasons[m].Id # id
        ELSE 0

\* buildJFItemSeason: (response, err); the response is the zero record when
\* err is set
buildJFItemSeason(seasonid) ==
    LET k == getSeasonByID(seasonid)
    IN  IF k = 0
        THEN [err |-> TRUE, Type |-> "", ParentID |-> <<>>, ID |-> <<>>,
              Etag |-> <<>>, IndexNumber |-> 0]
        ELSE [err |-> FALSE,
              Type |-> "Season",
              ParentID |-> ShowId,
              ID |-> itemprefix_season \o seasonid,
              Etag |-> idHash(seasonid),
              IndexNumber |-> seasons[k].SeasonNo]

\* showsSeasonsHandler: the season records of the show, in i.Seasons order;
\* a season whose record cannot be built is skipped
RECURSIVE showsSeasonsItems(_)
showsSeasonsItems(k) ==
    IF k > Len(seasons) THEN <<>>
    ELSE LET season == buildJFItemSeason(seasons[k].Id)
         IN  (IF season.err THEN <<>> ELSE <<season>>) \o showsSeasonsItems(k + 1)

showsSeasonsHandler(showId) ==
    IF ~getItemByID(showId).found
    THEN [status |-> 404, Items |-> <<>>, TotalRecordCount |-> 0]
    ELSE LET items == showsSeasonsItems(1)
         IN  [status |-> 200, Items |-> items, TotalRecordCount |-> Len(items)]

\* jellyfin.go usersItemHandler
main_usersItemHandlerOutcome(itemId) ==
    LET splitted == Split(itemId, "_")
        base == [handler |-> "main", itemId |-> itemId, branch |-> "item",
                 status |-> 404, internal |-> <<>>, ID |-> <<>>, Etag |-> <<>>]
    IN  IF Len(splitted) = 2
        THEN CASE splitted[1] = <<"c","o","l","l","e","c","t","i","o","n">> ->
                      \* buildJFItemCollection: the lookup library numbers no
                      \* collection by an id of InternalIds
                      [base EXCEPT !.branch = "collection"]
               [] splitted[1] = <<"s","e","a","s","o","n">> ->
                      LET season == buildJFItemSeason(itemId)
                      IN  IF season.err
                          THEN [base EXCEPT !.branch = "season"]
                          ELSE [base EXCEPT !.branch = "season", !.status = 200,
                                            !.internal = seasons[getSeasonByID(itemId)].Id,
                                            !.ID = season.ID, !.Etag = season.Etag]
               [] splitted[1] = <<"e","p","i","s","o","d","e">> ->
                      \* buildJFItemEpisode: the lookup library holds no episode
                      [base EXCEPT !.branch = "episode"]
               [] OTHER -> [base EXCEPT !.branch = "unknown_prefix", !.status = 500]
        ELSE IF ~getItemByID(itemId).found THEN base
             ELSE [base EXCEPT !.status = 200, !.internal = itemId,
                               !.ID = itemId, !.Etag = idHash(itemId)]

\* ------------------------------------------------- item.go applyItemFilter

\* the loop over includeItemTypes with a value that is neither Movie nor
\* Series keeping the item
RECURSIVE includeTypesLoop_unknownKeeps(_, _, _, _)
includeTypesLoop_unknownKeeps(i, values, k, keepItem) ==
    IF k > Len(values) THEN keepItem
    ELSE LET includeType == values[k]
             kept == \/ includeType = <<"M","o","v","i","e">> /\ i.Type = ItemTypeMovie
                     \/ includeType = <<"S","e","r","i","e","s">> /\ i.Type = ItemTypeShow
                     \/ includeType \notin {<<"M","o","v","i","e">>, <<"S","e","r","i","e","s">>}
         IN  includeTypesLoop_unknownKeeps(i, values, k + 1, keepItem \/ kept)

\* the loop over includeItemTypes: keepItem after the values from k on
RECURSIVE includeTypesLoop(_, _, _, _)
includeTypesLoop(i, values, k, keepItem) ==
    IF k > Len(values) THEN keepItem
    ELSE LET includeType == values[k]
             afterMovie == IF includeType = <<"M","o","v","i","e">> /\ i.Type = ItemTypeMovie
                           THEN TRUE ELSE keepItem
             afterSeries == IF includeType = <<"S","e","r","i","e","s">> /\ i.Type = ItemTypeShow
                            THEN TRUE ELSE afterMovie
         IN  includeTypesLoop(i, values, k + 1, afterSeries)

\* the loop over years: keepItem after the values from k on
RECURSIVE yearsLoop(_, _, _, _)
yearsLoop(i, values, k, keepItem) ==
    IF k > Len(values) THEN keepItem
    ELSE LET intYear == ParseInt(values[k])
         IN  yearsLoop(i, values, k + 1,
                       IF ~intYear.err /\ i.Year = intYear.val THEN TRUE ELSE keepItem)

\* applyItemFilter with the two filter kinds composed by OR: an item that
\* passes the include-type filter is kept whatever its year
applyItemFilter_anyKind(i, queryparams) ==
    IF /\ queryparams.includeItemTypes # <<>>
       /\ includeTypesLoop(i, Split(queryparams.includeItemTypes, ","), 1, FALSE)
    THEN TRUE
    ELSE IF /\ queryparams.years # <<>>
            /\ ~yearsLoop(i, Split(queryparams.years, ","), 1, FALSE)
    THEN FALSE
    ELSE queryparams.includeItemTypes = <<>> \/ queryparams.years # <<>>

\* applyItemFilter: whether the item stays in the result set
applyItemFilter(i, queryparams) ==
    IF /\ queryparams.includeItemTypes # <<>>
       /\ ~includeTypesLoop(i, Split(queryparams.includeItemTypes, ","), 1, FALSE)
    THEN FALSE
    ELSE IF /\ queryparams.years # <<>>
            /\ ~yearsLoop(i, Split(queryparams.years, ","), 1, FALSE)
    THEN FALSE
    ELSE TRUE

\* ------------------------------------------------ item.go applyItemSorting

Swap(items, i, j) == [items EXCEPT ![i] = items[j], ![j] = items[i]]

\* The less function handed to sort.SliceStable by applyItemSorting, with
\* its side effect: [items, less].  It fills the sort name of items[i], the
\* left operand, and only of that one, before each field is compared.
RECURSIVE applyItemSortingLess(_, _, _, _, _, _)
applyItemSortingLess(items, i, j, sortFields, k, sortDescending) ==
    IF k > Len(sortFields) THEN [items |-> items, less |-> FALSE]
    ELSE LET its == IF items[i].SortName = <<>>
                    THEN [items EXCEPT ![i].SortName = items[i].Name]
                    ELSE items
             field == ToLower(sortFields[k])
         IN  IF field \in {<<"d","e","f","a","u","l","t">>, <<"s","e","r","i","e","s","s","o","r","t","n","a","m","e">>, <<"s","o","r","t","n","a","m","e">>}
                  /\ its[i].SortName # its[j].SortName
             THEN [items |-> its,
                   less |-> IF sortDescending
                            THEN StrLess(its[j].SortName, its[i].SortName)
                            ELSE StrLess(its[i].SortName, its[j].SortName)]
             ELSE IF field = <<"p","r","o","d","u","c","t","i","o","n","y","e","a","r">>
                  /\ its[i].ProductionYear # its[j].ProductionYear
             THEN [items |-> its,
                   less |-> IF sortDescending
                            THEN its[i].ProductionYear > its[j].ProductionYear
                            ELSE its[i].ProductionYear < its[j].ProductionYear]
             ELSE IF field = <<"c","r","i","t","i","c","r","a","t","i","n","g">>
                  /\ its[i].CriticRating # its[j].CriticRating
             THEN [items |-> its,
                   less |-> IF sortDescending
                            THEN its[i].CriticRating > its[j].CriticRating
                            ELSE its[i].CriticRating < its[j].CriticRating]
             ELSE applyItemSortingLess(its, i, j, sortFields, k + 1, sortDescending)

\* The less function of the sort of jellyfin.go usersItemsHandler: no side
\* effect, and only sortname, productionyear and criticrating are keys.
RECURSIVE main_sortLess(_, _, _, _, _, _)
main_sortLess(items, i, j, sortFields, k, sortDescending) ==
    IF k > Len(sortFields) THEN [items |-> items, less |-> FALSE]
    ELSE LET field == ToLower(sortFields[k])
         IN  IF field = <<"s","o","r","t","n","a","m","e">> /\ items[i].SortName # items[j].SortName
             THEN [items |-> items,
                   less |-> IF sortDescending
                            THEN StrLess(items[j].SortName, items[i].SortName)
                            ELSE StrLess(items[i].SortName, items[j].SortName)]
             ELSE IF field = <<"p","r","o","d","u","c","t","i","o","n","y","e","a","r">> /\ items[i].Year # items[j].Year
             THEN [items |-> items,
                   less |-> IF sortDescending
                            THEN items[i].Year > items[j].Year
                            ELSE items[i].Year < items[j].Year]
             ELSE IF field = <<"c","r","i","t","i","c","r","a","t","i","n","g">> /\ items[i].Rating # items[j].Rating
             THEN [items |-> items,
                   less |-> IF sortDescending
                            THEN items[i].Rating > items[j].Rating
                            ELSE items[i].Rating < items[j].Rating]
             ELSE main_sortLess(items, i, j, sortFields, k + 1, sortDescending)

\* a less function that puts the earlier premiere date first
latestLess_oldestFirst(items, i, j) ==
    [items |-> items, less |-> items[i].PremiereDate < items[j].PremiereDate]

\* The less function of the sort of usersItemsLatestHandler:
\* items[i].PremiereDate.After(items[j].PremiereDate)
latestLess(items, i, j) ==
    [items |-> items, less |-> items[i].PremiereDate > items[j].PremiereDate]

\* the less function of one of the sorts
SortLess(impl, items, i, j, sortFields, sortDescending) ==
    IF impl = "jellyfin"
    THEN applyItemSortingLess(items, i, j, sortFields, 1, sortDescending)
    ELSE IF impl = "latest"
    THEN latestLess(items, i, j)
    ELSE main_sortLess(items, i, j, sortFields, 1, sortDescending)

\* sort.SliceStable on a slice of fewer than 20 elements (one block) is an
\* insertion sort: for i := 1; i < n; i++ { for j := i; j > 0 && less(j, j-1);
\* j-- { swap(j, j-1) } }.  Indices here start at 1.
RECURSIVE insertionSortInner(_, _, _, _, _)
insertionSortInner(impl, items, j, sortFields, sortDescending) ==
    IF j <= 1 THEN items
    ELSE LET r == SortLess(impl, items, j, j - 1, sortFields, sortDescending)
         IN  IF r.less
             THEN insertionSortInner(impl, Swap(r.items, j, j - 1), j - 1,
                                     sortFields, sortDescending)
             ELSE r.items

RECURSIVE insertionSort(_, _, _, _, _)
insertionSort(impl, items, i, sortFields, sortDescending) ==
    IF i > Len(items) THEN items
    ELSE insertionSort(impl,
                       insertionSortInner(impl, items, i, sortFields, sortDescending),
                       i + 1, sortFields, sortDescending)

SliceStable(impl, items, sortFields, sortDescending) ==
    insertionSort(impl, items, 2, sortFields, sortDescending)

\* the keys the less function of applyItemSorting has a case for
KnownSortKeys == {<<"d","e","f","a","u","l","t">>, <<"s","e","r","i","e","s","s","o","r","t","n","a","m","e">>, <<"s","o","r","t","n","a","m","e">>, <<"p","r","o","d","u","c","t","i","o","n","y","e","a","r">>, <<"c","r","i","t","i","c","r","a","t","i","n","g">>}

\* the sort fields up to the first one the less function has no case for
RECURSIVE KeysBeforeUnknown(_)
KeysBeforeUnknown(sortFields) ==
    IF sortFields = <<>> \/ ToLower(Head(sortFields)) \notin KnownSortKeys THEN <<>>
    ELSE <<Head(sortFields)>> \o KeysBeforeUnknown(Tail(sortFields))

\* applyItemSorting with a less function that gives up at an unknown key
applyItemSorting_stopsAtUnknown(items, queryparams) ==
    IF queryparams.sortBy = <<>> THEN items
    ELSE SliceStable("jellyfin", items, KeysBeforeUnknown(Split(queryparams.sortBy, ",")),
                     queryparams.sortOrder = <<"D","e","s","c","e","n","d","i","n","g">>)

\* applyItemSorting: the records sorted by sortBy and sortOrder
applyItemSorting(items, queryparams) ==
    IF queryparams.sortBy = <<>> THEN items
    ELSE SliceStable("jellyfin", items, Split(queryparams.sortBy, ","),
                     queryparams.sortOrder = <<"D","e","s","c","e","n","d","i","n","g">>)

\* jellyfin.go usersItemsHandler, the loop over c.Items: an empty sort name
\* is set to the name, on the Item itself
main_fixSortNames(items) ==
    [k \in 1..Len(items) |->
        IF items[k].SortName = <<>>
        THEN [items[k] EXCEPT !.SortName = items[k].Name]
        ELSE items[k]]

\* jellyfin.go usersItemsHandler, "Apply sorting if SortBy is provided"
main_sortItems(items, queryparams) ==
    IF queryparams.sortBy = <<>> THEN items
    ELSE SliceStable("main", items, Split(queryparams.sortBy, ","),
                     queryparams.sortOrder = <<"D","e","s","c","e","n","d","i","n","g">>)

\* -------------------------------------------------------- sort behaviour

\* name and sort name of a record: two names without an explicit sort name,
\* and one with a sort name that differs from its name
SortNamings ==
    {[Name |-> <<"A","l","p","h","a">>, SortName |-> <<>>],
     [Name |-> <<"B","e","t","a">>, SortName |-> <<>>],
     [Name |-> <<"A","l","p","h","a">>, SortName |-> <<"B","e","t","a">>]}

SortYears == {1999, 2000}

\* the critic rating of the record at scan position n: 7, 5, 7, 5, ...
RatingAt(n) == IF n % 2 = 1 THEN 7 ELSE 5

SortByValues ==
    {<<>>, <<"s","o","r","t","N","a","m","e",",","p","r","o","d","u","c","t","i","o","n","Y","e","a","r">>, <<"S","o","r","t","N","a","m","e">>, <<"c","r","i","t","i","c","R","a","t","i","n","g",",","d","e","f","a","u","l","t">>,
     <<"b","o","g","u","s",",","s","e","r","i","e","s","S","o","r","t","N","a","m","e">>, <<"b","o","g","u","s">>, <<"P","r","o","d","u","c","t","i","o","n","Y","e","a","r">>}

SortOrderValues == {<<"A","s","c","e","n","d","i","n","g">>, <<"D","e","s","c","e","n","d","i","n","g">>}

\* the record lists of n records; record k carries the id k
RECURSIVE RecordLists(_)
RecordLists(n) ==
    IF n = 0 THEN {<<>>}
    ELSE {l \o <<[ID |-> n, Name |-> naming.Name, SortName |-> naming.SortName,
                  ProductionYear |-> year, CriticRating |-> RatingAt(n)]>> :
              l \in RecordLists(n - 1), naming \in SortNamings, year \in SortYears}

SortStart ==
    /\ sortItems \in UNION {RecordLists(n) : n \in 0..MaxSortLen}
    /\ sortParams \in [sortBy : SortByValues, sortOrder : SortOrderValues]
    /\ sortResult = [by |-> "none", items |-> <<>>]

\* the Item a record was built from, as jellyfin.go sorts Items
ItemOf(r) ==
    [Id |-> r.ID, Name |-> r.Name, SortName |-> r.SortName,
     Year |-> r.ProductionYear, Rating |-> r.CriticRating]

\* the sort stage of item.go usersItemsHandler
ApplyItemSorting ==
    /\ sortResult.by = "none"
    /\ sortResult' = [by |-> "jellyfin", items |-> applyItemSorting(sortItems, sortParams)]
    /\ UNCHANGED <<sortItems, sortParams>>

\* the sort stage of jellyfin.go usersItemsHandler
MainSortItems ==
    /\ sortResult.by = "none"
    /\ LET items == main_fixSortNames([k \in 1..Len(sortItems) |-> ItemOf(sortItems[k])])
       IN  sortResult' = [by |-> "main", items |-> main_sortItems(items, sortParams)]
    /\ UNCHANGED <<sortItems, sortParams>>

SortNext ==
    \/ ApplyItemSorting /\ UNCHANGED <<lookupVars, filterVars, pageVars, itemsVars, nfoVars, mediaVars, snapVars, imageVars, mergeVars>>
    \/ MainSortItems /\ UNCHANGED <<lookupVars, filterVars, pageVars, itemsVars, nfoVars, mediaVars, snapVars, imageVars, mergeVars>>

SortInit == SortStart /\ LookupIdle /\ FilterIdle /\ PageIdle /\ ItemsIdle /\ NfoIdle /\ MediaIdle /\ SnapIdle /\ ImageIdle /\ MergeIdle

SpecSort == SortInit /\ [][SortNext]_vars

\* the sort name a record is to be ordered by: its sort name, or its name
\* when it has no explicit sort name
SortKeyName(r) == IF r.SortName = <<>> THEN r.Name ELSE r.SortName

\* the record of sortItems with the given id, as it was before sorting
Original(id) == sortItems[id]

\* the ids of the sorted list, in order
SortedIds ==
    [k \in 1..Len(sortResult.items) |->
        IF sortResult.by = "main" THEN sortResult.items[k].Id ELSE sortResult.items[k].ID]

\* a orders strictly before b under sortBy=sortName,productionYear ascending:
\* the first key on which they differ decides
NameThenYearBefore(a, b) ==
    IF SortKeyName(a) # SortKeyName(b) THEN StrLess(SortKeyName(a), SortKeyName(b))
    ELSE a.ProductionYear < b.ProductionYear

\* C7: sorted with sortBy=sortName,productionYear ascending, the records come
\* out ordered key by key, the first differing key deciding: no record is
\* placed after one it orders strictly before.  Two records named alike with
\* no explicit sort name, the year 2000 one listed first, come out swapped.
C7_KeyByKey ==
    (/\ sortResult.by # "none"
     /\ sortParams.sortBy = <<"s","o","r","t","N","a","m","e",",","p","r","o","d","u","c","t","i","o","n","Y","e","a","r">>
     /\ sortParams.sortOrder = <<"A","s","c","e","n","d","i","n","g">>)
        => \A p, r \in 1..Len(SortedIds) :
               p < r => ~NameThenYearBefore(Original(SortedIds[r]), Original(SortedIds[p]))

\* the records with every empty sort name replaced by the name
Prefilled(items) ==
    [k \in 1..Len(items) |->
        [items[k] EXCEPT !.SortName = SortKeyName(items[k])]]

\* the ids of a list of records, in order
IdsOf(items) == [k \in 1..Len(items) |-> items[k].ID]

\* the handler knows every name key of sortBy: item.go sorts by name for
\* sortName, default and seriesSortName, jellyfin.go for sortName only
NameKeysKnown ==
    \/ sortResult.by = "jellyfin"
    \/ \A k \in 1..Len(Split(sortParams.sortBy, ",")) :
           ToLower(Split(sortParams.sortBy, ",")[k]) \notin {<<"d","e","f","a","u","l","t">>, <<"s","e","r","i","e","s","s","o","r","t","n","a","m","e">>}

\* C19: a record with an empty sort name is ordered as if its sort name
\* were its name, as left and as right operand alike: the sorted order is
\* the order the sort gives after every empty sort name has been replaced by
\* the name.
C19_EmptySortNameIsName ==
    (sortResult.by # "none" /\ sortParams.sortBy # <<>> /\ NameKeysKnown)
        => SortedIds = IdsOf(applyItemSorting(Prefilled(sortItems), sortParams))

\* the part of C19 that the code keeps: the sort of jellyfin.go, which fills
\* the sort names before it sorts
EmptySortNameIsNameMain ==
    (sortResult.by = "main" /\ sortParams.sortBy # <<>> /\ NameKeysKnown)
        => SortedIds = IdsOf(applyItemSorting(Prefilled(sortItems), sortParams))

\* the records a and b are equal on every recognized key of sortBy
EqualOnKeys(a, b, sortBy) ==
    LET sortFields == Split(sortBy, ",")
    IN  \A k \in 1..Len(sortFields) :
            LET field == ToLower(sortFields[k])
            IN  /\ field \in {<<"d","e","f","a","u","l","t">>, <<"s","e","r","i","e","s","s","o","r","t","n","a","m","e">>, <<"s","o","r","t","n","a","m","e">>}
                       => SortKeyName(a) = SortKeyName(b)
                /\ field = <<"p","r","o","d","u","c","t","i","o","n","y","e","a","r">> => a.ProductionYear = b.ProductionYear
                /\ field = <<"c","r","i","t","i","c","r","a","t","i","n","g">> => a.CriticRating = b.CriticRating

\* C20: applyItemSorting is stable in both directions: records equal on
\* every requested recognized key keep their input order (record k of the
\* input carries the id k), and without sortBy the output is the input.
C20_Stable ==
    sortResult.by = "jellyfin"
        => /\ sortParams.sortBy = <<>> => sortResult.items = sortItems
           /\ sortParams.sortBy # <<>>
                  => \A p, r \in 1..Len(SortedIds) :
                         (/\ p < r
                          /\ EqualOnKeys(Original(SortedIds[p]), Original(SortedIds[r]),
                                         sortParams.sortBy))
                             => SortedIds[p] < SortedIds[r]

\* the part of C20 that the code keeps: without sortBy the output is the
\* input, and records that carry sort names and are equal on every
\* requested key keep their input order
StableWithSortNames ==
    sortResult.by = "jellyfin"
        => /\ sortParams.sortBy = <<>> => sortResult.items = sortItems
           /\ (/\ sortParams.sortBy # <<>>
                /\ \A k \in 1..Len(sortItems) : sortItems[k].SortName # <<>>)
                  => \A p, r \in 1..Len(SortedIds) :
                         (/\ p < r
                          /\ EqualOnKeys(Original(SortedIds[p]), Original(SortedIds[r]),
                                         sortParams.sortBy))
                             => SortedIds[p] < SortedIds[r]

\* the fields joined by commas, as a sortBy parameter lists them
RECURSIVE JoinFields(_)
JoinFields(fields) ==
    IF fields = <<>> THEN <<>>
    ELSE IF Len(fields) = 1 THEN Head(fields)
    ELSE Head(fields) \o <<",">> \o JoinFields(Tail(fields))

\* sortBy without the keys applyItemSorting does not know
WithoutUnknownKeys(sortBy) ==
    JoinFields(SelectSeq(Split(sortBy, ","), LAMBDA f : ToLower(f) \in KnownSortKeys))

\* C21: unknown sort keys are ignored: applyItemSorting orders the records
\* as it orders them for sortBy without its unknown keys, and leaves the
\* input order when sortBy has unknown keys only.
C21_UnknownKeysIgnored ==
    (sortResult.by = "jellyfin" /\ sortParams.sortBy # <<>>)
        => /\ SortedIds = IdsOf(applyItemSorting(sortItems,
                              [sortParams EXCEPT !.sortBy = WithoutUnknownKeys(@)]))
           /\ WithoutUnknownKeys(sortParams.sortBy) = <<>>
                  => SortedIds = IdsOf(sortItems)

\* C21 witness: sorted by an unknown key followed by a known one, the
\* records came out in another order than they went in
C21_Witness ==
    /\ sortResult.by = "jellyfin"
    /\ sortParams.sortBy = <<"b","o","g","u","s",",","s","e","r","i","e","s","S","o","r","t","N","a","m","e">>
    /\ SortedIds # IdsOf(sortItems)

\* C30: applyItemSorting changes only the order: its output holds every
\* record of the input once, each with the field values, sort name
\* included, it had before.
C30_OnlyOrderChanges ==
    sortResult.by = "jellyfin"
        => /\ Len(sortResult.items) = Len(sortItems)
           /\ \A k \in 1..Len(sortItems) : \E p \in 1..Len(sortResult.items) :
                  sortResult.items[p].ID = k
           /\ \A p \in 1..Len(sortResult.items) :
                  sortResult.items[p] = Original(sortResult.items[p].ID)

\* the part of C30 that the code keeps: the output is a permutation of the
\* input, and a record differs from what it was in nothing but an empty
\* sort name that became the name
PermutationUpToSortName ==
    sortResult.by = "jellyfin"
        => /\ Len(sortResult.items) = Len(sortItems)
           /\ \A k \in 1..Len(sortItems) : \E p \in 1..Len(sortResult.items) :
                  sortResult.items[p].ID = k
           /\ \A p \in 1..Len(sortResult.items) :
                  LET before == Original(sortResult.items[p].ID)
                  IN  \/ sortResult.items[p] = before
                      \/ /\ before.SortName = <<>>
                         /\ sortResult.items[p] = [before EXCEPT !.SortName = before.Name]

\* --------------------------------------------- item.go applyItemPaginating

\* applyItemPaginating with the two cuts in the wrong order: the limit is
\* taken from the head of the list before the start index is applied
applyItemPaginating_limitFirst(items, queryparams) ==
    LET limit == Atoi(queryparams.limit)
        limited == IF ~limit.err /\ limit.val > 0 /\ limit.val < Len(items)
                   THEN SubSeq(items, 1, limit.val)
                   ELSE items
        startIndex == Atoi(queryparams.startIndex)
    IN  IF ~startIndex.err /\ startIndex.val >= 0 /\ startIndex.val < Len(limited)
        THEN SubSeq(limited, startIndex.val + 1, Len(limited))
        ELSE limited

\* applyItemPaginating with a start index that is not tested against the
\* length of the list: a start index past the end leaves nothing
applyItemPaginating_unchecked(items, queryparams) ==
    LET startIndex == Atoi(queryparams.startIndex)
        started == IF ~startIndex.err /\ startIndex.val >= 0
                   THEN IF startIndex.val < Len(items)
                        THEN SubSeq(items, startIndex.val + 1, Len(items))
                        ELSE <<>>
                   ELSE items
        limit == Atoi(queryparams.limit)
    IN  IF ~limit.err /\ limit.val > 0 /\ limit.val < Len(started)
        THEN SubSeq(started, 1, limit.val)
        ELSE started

\* applyItemPaginating: items[startIndex:] when the start index is usable,
\* then items[:limit] when the limit is usable
applyItemPaginating(items, queryparams) ==
    LET startIndex == Atoi(queryparams.startIndex)
        started == IF ~startIndex.err /\ startIndex.val >= 0
                      /\ startIndex.val < Len(items)
                   THEN SubSeq(items, startIndex.val + 1, Len(items))
                   ELSE items
        limit == Atoi(queryparams.limit)
    IN  IF ~limit.err /\ limit.val > 0 /\ limit.val < Len(started)
        THEN SubSeq(started, 1, limit.val)
        ELSE started

\* the end of usersItemsHandler, from totalItemCount on: count, sort,
\* paginate, respond
usersItemsResponse(items, queryparams) ==
    LET totalItemCount == Len(items)
        sorted == applyItemSorting(items, queryparams)
    IN  [status |-> 200,
         Items |-> applyItemPaginating(sorted, queryparams),
         TotalRecordCount |-> totalItemCount,
         StartIndex |-> 0]

\* -------------------------------------------------- pagination behaviour

\* strconv.Itoa for n >= 0, to write the numbers a client sends
RECURSIVE DecimalString(_)
DecimalString(n) ==
    IF n < 10 THEN <<DecimalDigits[n + 1]>>
    ELSE DecimalString(n \div 10) \o <<DecimalDigits[(n % 10) + 1]>>

\* values a client sends as startIndex or limit: absent, malformed, negative,
\* and every number up to one past the longest list
PageNumberValues ==
    {<<>>, <<"x">>, <<"-","1">>} \cup {DecimalString(n) : n \in 0..(MaxPageLen + 1)}

\* the candidate at scan position k: years run 2000, 1999, 1998, 2000, ...
PageRecord(k) ==
    [ID |-> k, Name |-> <<"A","l","p","h","a">>, SortName |-> <<"A","l","p","h","a">>,
     ProductionYear |-> 2000 - ((k - 1) % 3), CriticRating |-> 5]

PageStart ==
    /\ pageItems \in {[k \in 1..n |-> PageRecord(k)] : n \in 0..MaxPageLen}
    /\ pageParams \in [sortBy : {<<>>, <<"P","r","o","d","u","c","t","i","o","n","Y","e","a","r">>},
                        sortOrder : {<<"A","s","c","e","n","d","i","n","g">>},
                        startIndex : PageNumberValues,
                        limit : PageNumberValues]
    /\ pageResponse = [status |-> 0, Items |-> <<>>, TotalRecordCount |-> 0,
                       StartIndex |-> 0]

\* usersItemsHandler answers with the candidates it collected
UsersItemsRespond ==
    /\ pageResponse.status = 0
    /\ pageResponse' = usersItemsResponse(pageItems, pageParams)
    /\ UNCHANGED <<pageItems, pageParams>>

PageNext == UsersItemsRespond /\ UNCHANGED <<lookupVars, filterVars, sortVars, itemsVars, nfoVars, mediaVars, snapVars, imageVars, mergeVars>>

PageInit == PageStart /\ LookupIdle /\ FilterIdle /\ SortIdle /\ ItemsIdle /\ NfoIdle /\ MediaIdle /\ SnapIdle /\ ImageIdle /\ MergeIdle

SpecPage == PageInit /\ [][PageNext]_vars

\* C8: with integers 0 <= startIndex < n and 0 < limit < n - startIndex, the
\* response holds exactly the records at positions [startIndex,
\* startIndex+limit) of the sorted candidates, in order, and the reported
\* totalRecordCount is n, the number of candidates.
C8_PageSlice ==
    LET n == Len(pageItems)
        startIndex == Atoi(pageParams.startIndex)
        limit == Atoi(pageParams.limit)
    IN  (/\ pageResponse.status = 200
         /\ ~startIndex.err /\ 0 <= startIndex.val /\ startIndex.val < n
         /\ ~limit.err /\ 0 < limit.val /\ limit.val < n - startIndex.val)
            => /\ Len(pageResponse.Items) = limit.val
               /\ \A k \in 1..limit.val :
                      pageResponse.Items[k] =
                          applyItemSorting(pageItems, pageParams)[startIndex.val + k]
               /\ pageResponse.TotalRecordCount = n

\* C8 witness: 10 candidates in scan order, startIndex=5, limit=3: the
\* response holds the 6th to 8th and reports 10
C8_Witness ==
    /\ Len(pageItems) = 10
    /\ pageParams.sortBy = <<>>
    /\ pageParams.startIndex = <<"5">>
    /\ pageParams.limit = <<"3">>
    /\ pageResponse.status = 200
    /\ [k \in 1..Len(pageResponse.Items) |-> pageResponse.Items[k].ID] = <<6, 7, 8>>
    /\ pageResponse.TotalRecordCount = 10

\* ------------------------------------------------- the listing handlers

\* Collections.GetCollections: every collection of the catalog, in order
GetCollections(cs) == cs

\* Collections.GetCollection, getCollection: the collection whose source id
\* is written as collectionid; [found |-> FALSE] stands for nil
GetCollection(cs, collectionid) ==
    LET hits == {n \in 1..Len(cs) : DecimalString(cs[n].SourceId) = collectionid}
    IN  IF hits = {} THEN [found |-> FALSE, at |-> 0]
        ELSE [found |-> TRUE, at |-> CHOOSE n \in hits : \A m \in hits : n <= m]

\* makeJFItem for a movie or a show: the record of a catalog item
makeJFItem(i) ==
    [ID |-> i.Id, Name |-> i.Name, SortName |-> i.SortName,
     ProductionYear |-> i.Year, CriticRating |-> i.Rating, Type |-> i.Type,
     PremiereDate |-> i.FirstVideo]

\* the loop over c.Items of the item.go handlers: the records of the items
\* from k on that match the search term and pass the filter
RECURSIVE collectItems(_, _, _)
collectItems(c, k, queryparams) ==
    IF k > Len(c.Items) THEN <<>>
    ELSE LET i == c.Items[k]
             take == /\ \/ queryparams.searchTerm = <<>>
                        \/ Contains(ToLower(i.Name), ToLower(queryparams.searchTerm))
                     /\ applyItemFilter(i, queryparams)
         IN  (IF take THEN <<makeJFItem(i)>> ELSE <<>>)
                 \o collectItems(c, k + 1, queryparams)

\* the loop over GetCollections() of the item.go handlers, from collection n
\* on; searchC is the outcome of GetCollection, not found when there is no
\* parentId
RECURSIVE collectCollections(_, _, _, _)
collectCollections(cs, n, searchC, queryparams) ==
    IF n > Len(cs) THEN <<>>
    ELSE LET c == cs[n]
             skip == searchC.found /\ searchC.SourceId # c.SourceId
         IN  (IF skip THEN <<>> ELSE collectItems(c, 1, queryparams))
                 \o collectCollections(cs, n + 1, searchC, queryparams)

\* the listing handlers of item.go, "var searchC *collection.Collection":
\* the collection the parentId names, [found |-> FALSE] for nil
searchCollection(cs, queryparams) ==
    IF queryparams.parentId # <<>>
    THEN LET c == GetCollection(cs, TrimPrefix(queryparams.parentId,
                                               itemprefix_collection))
         IN  [found |-> c.found,
              SourceId |-> IF c.found THEN cs[c.at].SourceId ELSE 0]
    ELSE [found |-> FALSE, SourceId |-> 0]

\* item.go usersItemsHandler and searchHintsHandler from the loop over the
\* collections on; the two differ in the name of the response field only
listingOf(handler, cs, searchC, queryparams) ==
    LET items == collectCollections(GetCollections(cs), 1, searchC, queryparams)
        totalItemCount == Len(items)
        sorted == applyItemSorting(items, queryparams)
    IN  [handler |-> handler, status |-> 200, branch |-> "listing",
         Items |-> applyItemPaginating(sorted, queryparams),
         TotalRecordCount |-> totalItemCount]

\* item.go usersItemsHandler and searchHintsHandler
listingResponse(handler, cs, queryparams) ==
    IF HasPrefix(queryparams.parentId, itemprefix_collection_playlist)
    THEN [handler |-> handler, status |-> 200, branch |-> "playlists",
          Items |-> <<>>, TotalRecordCount |-> 0]
    ELSE listingOf(handler, cs, searchCollection(cs, queryparams), queryparams)

\* item.go usersItemsLatestHandler from the loop over the collections on:
\* no search term, the records ordered by premiere date, latest first, and
\* paginated; the response is the bare list
latestOf(cs, searchC, queryparams) ==
    LET items == collectCollections(GetCollections(cs), 1, searchC,
                                    [queryparams EXCEPT !.searchTerm = <<>>])
        sorted == SliceStable("latest", items, <<>>, FALSE)
    IN  [handler |-> "usersItemsLatest", status |-> 200, branch |-> "latest",
         Items |-> applyItemPaginating(sorted, queryparams),
         TotalRecordCount |-> 0]

\* jellyfin.go getCollectionID
getCollectionID(input) ==
    IF ~HasPrefix(input, itemprefix_collection)
    THEN [id |-> <<>>, err |-> TRUE]
    ELSE [id |-> TrimPrefix(input, itemprefix_collection), err |-> FALSE]

\* jellyfin.go usersItemsHandler, the loop over c.Items: the positions of
\* the items from k on that match the search term
RECURSIVE main_matching(_, _, _)
main_matching(c, k, searchTerm) ==
    IF k > Len(c.Items) \/ c.SourceId = 0 THEN <<>>
    ELSE (IF \/ searchTerm = <<>>
             \/ Contains(ToLower(c.Items[k].Name), ToLower(searchTerm))
          THEN <<k>> ELSE <<>>) \o main_matching(c, k + 1, searchTerm)

\* jellyfin.go usersItemsHandler, "Apply pagination": a value that does not
\* parse counts as 0
main_paginate(items, queryparams) ==
    LET startIndex == Atoi(queryparams.startIndex).val
        limit == Atoi(queryparams.limit).val
        started == IF startIndex >= 0 /\ startIndex < Len(items)
                   THEN SubSeq(items, startIndex + 1, Len(items))
                   ELSE items
    IN  IF limit > 0 /\ limit < Len(started) THEN SubSeq(started, 1, limit)
        ELSE started

\* jellyfin.go buildJFItem for an item without a descriptor file
buildJFItem(c, i) ==
    [ID |-> i.Id, Name |-> i.Name, SortName |-> i.Name,
     ProductionYear |-> 0, CriticRating |-> 0, Type |-> c.Type,
     PremiereDate |-> i.FirstVideo]

\* jellyfin.go usersItemsHandler: [response, collections], the catalog with
\* the sort names the handler filled in on the items it matched
main_usersItemsHandler(cs, queryparams) ==
    LET parsed == getCollectionID(queryparams.parentId)
        collectionid == IF queryparams.searchTerm # <<>> THEN <<"2">> ELSE parsed.id
        found == GetCollection(cs, collectionid)
        notFound == [handler |-> "main", status |-> 404, branch |-> "none",
                     Items |-> <<>>, TotalRecordCount |-> 0]
    IN  IF collectionid = <<>> \/ ~found.found
        THEN [response |-> notFound, collections |-> cs]
        ELSE LET c == cs[found.at]
                 matched == main_matching(c, 1, queryparams.searchTerm)
                 fixed == [k \in 1..Len(c.Items) |->
                              IF /\ \E m \in 1..Len(matched) : matched[m] = k
                                 /\ c.Items[k].SortName = <<>>
                              THEN [c.Items[k] EXCEPT !.SortName = c.Items[k].Name]
                              ELSE c.Items[k]]
                 items == [m \in 1..Len(matched) |-> fixed[matched[m]]]
                 paged == main_paginate(main_sortItems(items, queryparams), queryparams)
             IN  [response |->
                      [handler |-> "main", status |-> 200, branch |-> "listing",
                       Items |-> [m \in 1..Len(paged) |-> buildJFItem(c, paged[m])],
                       TotalRecordCount |-> Len(c.Items)],
                  collections |-> [cs EXCEPT ![found.at].Items = fixed]]

\* --------------------------------------------------- listing behaviour

ItemNames == {<<"A","l","i","e","n">>, <<"B","r","a","z","i","l">>}

\* the year an item of the catalog carries: Alien 1999, Brazil 2000
YearOf(name) == IF name = <<"A","l","i","e","n">> THEN 1999 ELSE 2000

\* the first-seen time of the files of the item with an id: later for even ids
FirstVideoOf(id) == IF id % 2 = 0 THEN 200 ELSE 100

\* the item lists of n items of a collection; item k of source s has the
\* id 10 * s + k
RECURSIVE ItemLists(_, _, _)
ItemLists(sourceId, type, n) ==
    IF n = 0 THEN {<<>>}
    ELSE {l \o <<[Id |-> 10 * sourceId + n, Name |-> name, SortName |-> <<>>,
                  Year |-> YearOf(name), Rating |-> 5, Type |-> type,
                  FirstVideo |-> FirstVideoOf(10 * sourceId + n)]>> :
              l \in ItemLists(sourceId, type, n - 1), name \in ItemNames}

\* the catalogs: a movie collection with source id 1 and a show collection
\* with source id 2, holding at most MaxItems items together
Catalogs ==
    {<<[SourceId |-> 1, Type |-> ItemTypeMovie, Items |-> movies],
       [SourceId |-> 2, Type |-> ItemTypeShow, Items |-> shows]>> :
         movies \in UNION {ItemLists(1, ItemTypeMovie, n) : n \in 0..MaxItems},
         shows \in UNION {ItemLists(2, ItemTypeShow, n) : n \in 0..MaxItems}}

\* values a listing request carries as startIndex or limit: absent,
\* malformed, negative, inside and past the longest list
ItemsNumberValues == {<<>>, <<"x">>, <<"-","1">>} \cup {DecimalString(n) : n \in 1..MaxItems}

ItemsStart ==
    /\ collections \in {cs \in Catalogs : Len(cs[1].Items) + Len(cs[2].Items) <= MaxItems}
    /\ itemsRequest \in
           [parentId : {<<>>, <<"c","o","l","l","e","c","t","i","o","n","_","1">>, <<"c","o","l","l","e","c","t","i","o","n","_","2">>, <<"c","o","l","l","e","c","t","i","o","n","_","9">>,
                        <<"c","o","l","l","e","c","t","i","o","n","p","l","a","y","l","i","s","t","_">>},
            searchTerm : {<<>>, <<"A","L">>},
            includeItemTypes : {<<>>, <<"S","e","r","i","e","s">>},
            years : {<<>>, <<"1","9","9","9">>},
            sortBy : {<<>>, <<"S","o","r","t","N","a","m","e">>},
            sortOrder : {<<"D","e","s","c","e","n","d","i","n","g">>},
            startIndex : ItemsNumberValues,
            limit : ItemsNumberValues]
    /\ itemsResponse = NoItemsResponse

\* GET /Users/{user}/Items, item.go
UsersItemsRequest ==
    /\ itemsResponse.handler = "none"
    /\ itemsResponse' = listingResponse("usersItems", collections, itemsRequest)
    /\ UNCHANGED <<collections, itemsRequest>>

\* GET /Search/Hints, item.go
SearchHintsRequest ==
    /\ itemsResponse.handler = "none"
    /\ itemsResponse' = listingResponse("searchHints", collections, itemsRequest)
    /\ UNCHANGED <<collections, itemsRequest>>

\* GET /Users/{user}/Items, jellyfin.go
MainUsersItemsRequest ==
    /\ itemsResponse.handler = "none"
    /\ LET out == main_usersItemsHandler(collections, itemsRequest)
       IN  /\ itemsResponse' = out.response
           /\ collections' = out.collections
    /\ UNCHANGED itemsRequest

\* GET /Users/{user}/Items/Latest, item.go
UsersItemsLatestRequest ==
    /\ itemsResponse.handler = "none"
    /\ itemsResponse' = latestOf(collections, searchCollection(collections, itemsRequest),
                                 itemsRequest)
    /\ UNCHANGED <<collections, itemsRequest>>

ItemsNext ==
    \/ UsersItemsLatestRequest /\ UNCHANGED <<lookupVars, filterVars, sortVars, pageVars, nfoVars, mediaVars, snapVars, imageVars, mergeVars>>
    \/ UsersItemsRequest /\ UNCHANGED <<lookupVars, filterVars, sortVars, pageVars, nfoVars, mediaVars, snapVars, imageVars, mergeVars>>
    \/ SearchHintsRequest /\ UNCHANGED <<lookupVars, filterVars, sortVars, pageVars, nfoVars, mediaVars, snapVars, imageVars, mergeVars>>
    \/ MainUsersItemsRequest /\ UNCHANGED <<lookupVars, filterVars, sortVars, pageVars, nfoVars, mediaVars, snapVars, imageVars, mergeVars>>

ItemsInit == ItemsStart /\ LookupIdle /\ FilterIdle /\ SortIdle /\ PageIdle /\ NfoIdle /\ MediaIdle /\ SnapIdle /\ ImageIdle /\ MergeIdle

SpecItems == ItemsInit /\ [][ItemsNext]_vars

\* the collections a listing request is scoped to: the one the parent id
\* names, every collection when it names none; the jellyfin.go handler
\* searches the collection with source id 2 whenever a search term is given
ScopedCollections ==
    LET wanted == IF itemsResponse.handler = "main" /\ itemsRequest.searchTerm # <<>>
                  THEN <<"2">>
                  ELSE TrimPrefix(itemsRequest.parentId, itemprefix_collection)
        named == {n \in 1..Len(collections) :
                     DecimalString(collections[n].SourceId) = wanted}
    IN  IF named = {} THEN 1..Len(collections) ELSE named

\* the entities that pass the collection scope, the search term and the
\* filters the handler applies (the jellyfin.go handler has no filters)
PassingEntities ==
    {<<n, k>> \in (1..Len(collections)) \X (1..MaxItems + 1) :
        /\ n \in ScopedCollections
        /\ k <= Len(collections[n].Items)
        /\ \/ itemsRequest.searchTerm = <<>>
           \/ Contains(ToLower(collections[n].Items[k].Name),
                       ToLower(itemsRequest.searchTerm))
        /\ \/ itemsResponse.handler = "main"
           \/ applyItemFilter(collections[n].Items[k], itemsRequest)}

\* C9: the totalRecordCount of an items listing or a search-hints listing is
\* the number of entities that pass the collection scope, the search term
\* and the filters, whatever startIndex and limit are; it is never the
\* unfiltered size of the collection when a search term removed entities.
C9_TotalIsFilteredCount ==
    (itemsResponse.status = 200 /\ itemsResponse.branch = "listing")
        => itemsResponse.TotalRecordCount = Cardinality(PassingEntities)

\* the request has a collection scope that names no collection of the catalog
ScopeUnresolved ==
    /\ itemsRequest.parentId # <<>>
    /\ ~HasPrefix(itemsRequest.parentId, itemprefix_collection_playlist)
    /\ \A n \in 1..Len(collections) :
           DecimalString(collections[n].SourceId)
               # TrimPrefix(itemsRequest.parentId, itemprefix_collection)

\* C17: an items listing whose collection scope is present but names no
\* collection is answered not-found; it never lists entities of other
\* collections.
C17_UnresolvedScope ==
    (itemsResponse.handler # "none" /\ ScopeUnresolved)
        => /\ itemsResponse.status = 404
           /\ itemsResponse.Items = <<>>

\* the part of C17 that the code keeps: the jellyfin.go handler answers
\* not-found when no search term is given
UnresolvedScopeMain ==
    (/\ itemsResponse.handler = "main"
     /\ itemsRequest.searchTerm = <<>>
     /\ ScopeUnresolved)
        => /\ itemsResponse.status = 404
           /\ itemsResponse.Items = <<>>

\* s is an integer in decimal notation
IsInteger(s) ==
    LET body == IF s # <<>> /\ s[1] \in {"+", "-"} THEN Tail(s) ELSE s
    IN  body # <<>> /\ \A k \in 1..Len(body) : body[k] \in {DecimalDigits[d] : d \in 1..10}

\* the integer s denotes
IntegerOf(s) ==
    IF s[1] = "-" THEN 0 - DigitsValue(Tail(s))
    ELSE IF s[1] = "+" THEN DigitsValue(Tail(s))
    ELSE DigitsValue(s)

\* the records the handler of the response lists for the request without
\* startIndex and limit
Unpaginated ==
    LET whole == [itemsRequest EXCEPT !.startIndex = <<>>, !.limit = <<>>]
    IN  IF itemsResponse.handler = "main"
        THEN main_usersItemsHandler(collections, whole).response.Items
        ELSE listingResponse(itemsResponse.handler, collections, whole).Items

\* C22: the start index is applied only when it is an integer with
\* 0 <= start < length and the limit only when it is an integer with
\* 0 < limit < remaining length; otherwise the list starts at its first
\* record, respectively the remaining list is left uncut.
C22_PaginationGuards ==
    (itemsResponse.status = 200 /\ itemsResponse.branch = "listing")
        => LET n == Len(Unpaginated)
               s == itemsRequest.startIndex
               l == itemsRequest.limit
               start == IF IsInteger(s) /\ 0 <= IntegerOf(s) /\ IntegerOf(s) < n
                        THEN IntegerOf(s) ELSE 0
               remaining == n - start
               count == IF IsInteger(l) /\ 0 < IntegerOf(l) /\ IntegerOf(l) < remaining
                        THEN IntegerOf(l) ELSE remaining
           IN  itemsResponse.Items = SubSeq(Unpaginated, start + 1, start + count)

\* C22 witness: a listing of two records for a start index past the end and
\* a malformed limit, which left both records in place
C22_Witness ==
    /\ itemsResponse.status = 200 /\ itemsResponse.branch = "listing"
    /\ itemsRequest.startIndex = <<"2">>
    /\ itemsRequest.limit = <<"x">>
    /\ Len(itemsResponse.Items) = 2

\* the catalog items that pass the collection scope and the filters of a
\* latest-items request
LatestPassing ==
    {collections[n].Items[k] : <<n, k>> \in
        {<<n, k>> \in (1..Len(collections)) \X (1..MaxItems + 1) :
            /\ n \in ScopedCollections
            /\ k <= Len(collections[n].Items)
            /\ applyItemFilter(collections[n].Items[k], itemsRequest)}}

\* item a comes before item b in a latest-items listing: the later first
\* video, and for equal ones the earlier in scan order, which is the order
\* of the ids
LatestBefore(a, b) ==
    \/ a.FirstVideo > b.FirstVideo
    \/ a.FirstVideo = b.FirstVideo /\ a.Id < b.Id

\* the ids of the passing items in latest-first order
LatestOrder ==
    LET n == Cardinality(LatestPassing)
    IN  CHOOSE seq \in [1..n -> {i.Id : i \in LatestPassing}] :
            \A p, r \in 1..n :
                p < r => \E a, b \in LatestPassing :
                             /\ a.Id = seq[p] /\ b.Id = seq[r]
                             /\ LatestBefore(a, b)

C13_CatalogUnchanged == [][collections' = collections]_vars

\* ------------------------------------------------------ filter behaviour

\* values a client sends as includeItemTypes ("" when the parameter is absent)
IncludeItemTypesValues ==
    {<<>>, <<"M","o","v","i","e">>, <<"S","e","r","i","e","s">>, <<"M","o","v","i","e",",","S","e","r","i","e","s">>, <<"E","p","i","s","o","d","e">>, <<"E","p","i","s","o","d","e",",","M","o","v","i","e">>,
     <<"m","o","v","i","e">>, <<"S","e","r","i","e","s",",">>}

\* values a client sends as years ("" when the parameter is absent)
YearsValues ==
    {<<>>, <<"1","9","9","9">>, <<"2","0","0","0">>, <<"1","9","9","9",",","2","0","0","1">>, <<"2","0","0","1",",","2","0","0","0">>, <<"x">>, <<"x",",","2","0","0","0">>,
     <<"+","1","9","9","9">>, <<"1","9","9","9",",">>, <<"1","9">>}

ItemYears == {0, 1999, 2000, 2001}

FilterStart ==
    /\ filterItem \in [Type : {ItemTypeMovie, ItemTypeShow}, Year : ItemYears]
    /\ filterParams \in [includeItemTypes : IncludeItemTypesValues, years : YearsValues]
    /\ filterResult = "none"

\* one call of applyItemFilter
ApplyItemFilter ==
    /\ filterResult = "none"
    /\ filterResult' = IF applyItemFilter(filterItem, filterParams) THEN "keep" ELSE "drop"
    /\ UNCHANGED <<filterItem, filterParams>>

FilterNext == ApplyItemFilter /\ UNCHANGED <<lookupVars, sortVars, pageVars, itemsVars, nfoVars, mediaVars, snapVars, imageVars, mergeVars>>

FilterInit == FilterStart /\ LookupIdle /\ SortIdle /\ PageIdle /\ ItemsIdle /\ NfoIdle /\ MediaIdle /\ SnapIdle /\ ImageIdle /\ MergeIdle

SpecFilter == FilterInit /\ [][FilterNext]_vars

\* the values of a comma-separated parameter
ListedValues(param) == {Split(param, ",")[k] : k \in 1..Len(Split(param, ","))}

\* the kind name the protocol gives an item: Movie or Series
KindName(i) == IF i.Type = ItemTypeMovie THEN <<"M","o","v","i","e">> ELSE <<"S","e","r","i","e","s">>

\* C10: an item passes the filter iff (includeItemTypes is absent or the
\* item's kind, Movie or Series, is one of the listed values) and (years is
\* absent or the item's year equals one of the listed integers).
C10_FilterIff ==
    filterResult # "none" =>
        ((filterResult = "keep") <=>
            (/\ \/ filterParams.includeItemTypes = <<>>
                \/ KindName(filterItem) \in ListedValues(filterParams.includeItemTypes)
             /\ \/ filterParams.years = <<>>
                \/ \E v \in ListedValues(filterParams.years) :
                       ~ParseInt(v).err /\ ParseInt(v).val = filterItem.Year))

\* C10 witness: a call that drops an item on its kind or year, and one that
\* keeps an item under both filters
C10_Witness ==
    /\ filterResult = "drop"
    /\ filterParams.years = <<"1","9","9","9",",","2","0","0","1">>
    /\ filterItem.Year = 2000
    /\ filterParams.includeItemTypes = <<"M","o","v","i","e",",","S","e","r","i","e","s">>

\* the values of includeItemTypes that name a kind, in order
KnownTypeValues(param) ==
    SelectSeq(Split(param, ","), LAMBDA v : v \in {<<"M","o","v","i","e">>, <<"S","e","r","i","e","s">>})

\* C23: a value of includeItemTypes other than "Movie" and "Series" never
\* keeps an entity: a non-empty list of such values only drops every entity,
\* and a list with such values keeps exactly the entities the list without
\* them keeps.
C23_UnknownTypesNeverMatch ==
    (filterResult # "none" /\ filterParams.includeItemTypes # <<>>)
        => LET known == KnownTypeValues(filterParams.includeItemTypes)
           IN  IF known = <<>> THEN filterResult = "drop"
               ELSE (filterResult = "keep")
                        <=> applyItemFilter(filterItem,
                                [filterParams EXCEPT !.includeItemTypes = JoinFields(known)])

\* C23 witness: a movie dropped for includeItemTypes=Episode, with no year
\* filter that could have dropped it
C23_Witness ==
    /\ filterResult = "drop"
    /\ filterItem.Type = ItemTypeMovie
    /\ filterParams.includeItemTypes = <<"E","p","i","s","o","d","e">>
    /\ filterParams.years = <<>>

\* ------------------------------------------------------- lookup behaviour

RECURSIVE DistinctIdSeqs(_)
\* the season lists of at most n seasons with pairwise different ids
DistinctIdSeqs(n) ==
    IF n = 0 THEN {<<>>}
    ELSE LET shorter == DistinctIdSeqs(n - 1)
         IN  shorter \cup
             {s \o <<[Id |-> id, SeasonNo |-> Len(s) + 1]>> :
                  s \in {t \in shorter : Len(t) = n - 1},
                  id \in SeasonIds}

LookupStart ==
    /\ seasons \in {s \in DistinctIdSeqs(MaxSeasons) :
                       /\ Len(s) >= 1
                       /\ \A i, j \in 1..Len(s) : i # j => s[i].Id # s[j].Id}
    /\ request = [prefix |-> <<>>, internal |-> <<>>, itemId |-> <<>>]
    /\ itemResponse = NoItemResponse
    /\ listResponse = [status |-> 0, Items |-> <<>>, TotalRecordCount |-> 0]

\* the prefixes a client may put before an internal id: the supported ones,
\* an unsupported one, and none at all (a plain item id)
RequestPrefixes == SupportedPrefixes \cup {itemprefix_show, <<>>}

\* GET /Users/{user}/Items/{item}, package jellyfin
UsersItemRequest ==
    \E prefix \in RequestPrefixes, internal \in InternalIds :
        /\ request' = [prefix |-> prefix, internal |-> internal,
                        itemId |-> EncodeId(prefix, internal)]
        /\ itemResponse' = usersItemHandlerOutcome(EncodeId(prefix, internal))
        /\ UNCHANGED <<seasons, listResponse>>

\* GET /Users/{user}/Items/{item}, package main
MainUsersItemRequest ==
    \E prefix \in RequestPrefixes, internal \in InternalIds :
        /\ request' = [prefix |-> prefix, internal |-> internal,
                        itemId |-> EncodeId(prefix, internal)]
        /\ itemResponse' = main_usersItemHandlerOutcome(EncodeId(prefix, internal))
        /\ UNCHANGED <<seasons, listResponse>>

\* GET /Shows/{show}/Seasons, package main
ShowsSeasonsRequest ==
    /\ listResponse' = showsSeasonsHandler(ShowId)
    /\ UNCHANGED <<seasons, request, itemResponse>>

LookupNext ==
    \/ UsersItemRequest /\ UNCHANGED <<filterVars, sortVars, pageVars, itemsVars, nfoVars, mediaVars, snapVars, imageVars, mergeVars>>
    \/ MainUsersItemRequest /\ UNCHANGED <<filterVars, sortVars, pageVars, itemsVars, nfoVars, mediaVars, snapVars, imageVars, mergeVars>>
    \/ ShowsSeasonsRequest /\ UNCHANGED <<filterVars, sortVars, pageVars, itemsVars, nfoVars, mediaVars, snapVars, imageVars, mergeVars>>

LookupInit == LookupStart /\ FilterIdle /\ SortIdle /\ PageIdle /\ ItemsIdle /\ NfoIdle /\ MediaIdle /\ SnapIdle /\ ImageIdle /\ MergeIdle

SpecLookup == LookupInit /\ [][LookupNext]_vars

\* C1: for every supported prefix P and internal id X, usersItemHandler
\* dispatches the id P + X to the branch of P and the branch looks up exactly X.
C1_RoundTrip ==
    (/\ itemResponse.handler = "jellyfin"
     /\ request.prefix \in SupportedPrefixes)
        => /\ itemResponse.branch = BranchOf(request.prefix)
           /\ itemResponse.internal = request.internal

\* C2: a season served by the seasons listing and by the item-by-id lookup
\* (asked with the external id the listing gave) carries the same external id
\* and the same entity tag in both, the tag being the hash of the external id.
C2_SameIdAndTag ==
    (/\ listResponse.status = 200
     /\ itemResponse.handler = "main"
     /\ itemResponse.status = 200)
        => \A k \in 1..Len(listResponse.Items) :
               listResponse.Items[k].ID = itemResponse.itemId
                   => /\ itemResponse.ID = listResponse.Items[k].ID
                      /\ itemResponse.Etag = listResponse.Items[k].Etag
                      /\ itemResponse.Etag = idHash(itemResponse.ID)

\* the prefix token of an id that holds a separator: the text up to and
\* with its first separator
PrefixToken(itemId) == SubSeq(itemId, 1, Index(itemId, itemprefix_separator))

\* C15: in the item-by-id lookup every id whose prefix token is not one of
\* the supported prefixes gets the internal-error outcome, also when the
\* rest of the id holds further separators.
C15_UnknownPrefix ==
    (/\ itemResponse.handler # "none"
     /\ Index(itemResponse.itemId, itemprefix_separator) > 0
     /\ PrefixToken(itemResponse.itemId) \notin SupportedPrefixes)
        => itemResponse.status = 500

\* the same over the ids that hold exactly one separator
UnknownPrefixOneSeparator ==
    (/\ itemResponse.handler # "none"
     /\ Len(Split(itemResponse.itemId, itemprefix_separator)) = 2
     /\ PrefixToken(itemResponse.itemId) \notin SupportedPrefixes)
        => itemResponse.status = 500

\* ------------------------------------------ jellyfin.go descriptor loading

Entities == {"show", "episode"}

Workers == 1..MaxWorkers

NfoFields == {"Mpaa", "Rating"}

\* an Nfo as the allocator hands it out: every field zero
ZeroNfo == [Mpaa |-> <<>>, Rating |-> 0]

\* decodeNfo: the fields of the descriptor file; ratings count hundredths
decodeNfo(file) == [Mpaa |-> file.Mpaa, Rating |-> file.Rating]

\* math.Round(float64(n.Rating)*10) / 10 on hundredths: to the nearest tenth
RoundToTenth(rating) == ((rating + 5) \div 10) * 10

\* what worker w reads from the Nfo pointer of entity e: its own store when
\* that has not reached memory yet, else what memory holds
LoadPtr(w, e) == IF <<e, "ptr">> \in pending[w] THEN w ELSE nfoPtr[e]

\* what worker w reads from the fields of the Nfo that owner allocated for
\* e: its own stores in program order, another worker's as memory holds them
LoadNfo(w, owner, e) ==
    IF owner = w THEN decodeNfo(nfoFile[e]) ELSE nfoObj[owner][e]

\* lazyLoadNFO with the test removed: every call opens and parses the file
lazyLoadNFO_always(n) == FALSE

\* lazyLoadNFO, "NFO already loaded and parsed?": whether the call returns
\* at once
lazyLoadNFO_loaded(n) == n # 0

\* enrichResponseWithNFO, the rating fields
enrichResponseWithNFO(r, n) ==
    [r EXCEPT !.OfficialRating = n.Mpaa,
              !.CommunityRating = IF n.Rating # 0 THEN RoundToTenth(n.Rating) ELSE @]

\* buildJFItemEpisode without the step that removes the ratings
removeRatings_kept(r) == r

\* buildJFItemEpisode with a removal step that clears the age rating only
removeRatings_ageOnly(r) == [r EXCEPT !.OfficialRating = <<>>]

\* buildJFItemEpisode, "Remove ratings as we do not want ratings from series
\* apply to an episode"
removeRatings(r) == [r EXCEPT !.OfficialRating = <<>>, !.CommunityRating = 0]

NewResponse == [OfficialRating |-> <<>>, CommunityRating |-> 0]

NothingRead == [attached |-> FALSE, Mpaa |-> <<>>, Rating |-> 0]

\* ---------------------------------------------------- descriptor behaviour

ShowFiles ==
    {[exists |-> FALSE, Mpaa |-> <<>>, Rating |-> 0],
     [exists |-> TRUE, Mpaa |-> <<"T","V","-","1","4">>, Rating |-> 812]}

EpisodeFiles ==
    {[exists |-> FALSE, Mpaa |-> <<>>, Rating |-> 0],
     [exists |-> TRUE, Mpaa |-> <<>>, Rating |-> 0],
     [exists |-> TRUE, Mpaa |-> <<"P","G">>, Rating |-> 745]}

NfoStart ==
    /\ nfoFile \in {[e \in Entities |-> IF e = "show" THEN s ELSE p] :
                        s \in ShowFiles, p \in EpisodeFiles}
    /\ nfoPtr = [e \in Entities |-> 0]
    /\ nfoObj = [w \in Workers |-> [e \in Entities |-> ZeroNfo]]
    /\ pending = [w \in Workers |-> {}]
    /\ pc = [w \in Workers |-> [at |-> "idle", entity |-> "show"]]
    /\ requests = [w \in Workers |-> 0]
    /\ nfoRead = [w \in Workers |-> [e \in Entities |-> NothingRead]]
    /\ response = [w \in Workers |-> NewResponse]

\* a request for an episode arrives: buildJFItemEpisode fills in the fixed
\* fields and reaches lazyLoadNFO for the show
BeginRequest(w) ==
    /\ pc[w].at \in {"idle", "done"}
    /\ requests[w] < MaxRequests
    /\ requests' = [requests EXCEPT ![w] = @ + 1]
    /\ pc' = [pc EXCEPT ![w] = [at |-> "check", entity |-> "show"]]
    /\ response' = [response EXCEPT ![w] = NewResponse]
    /\ nfoRead' = [nfoRead EXCEPT ![w] = [e \in Entities |-> NothingRead]]
    /\ UNCHANGED <<nfoFile, nfoPtr, nfoObj, pending>>

\* lazyLoadNFO, the test of *n
LazyLoadCheck(w) ==
    /\ pc[w].at = "check"
    /\ pc' = [pc EXCEPT ![w].at =
                 IF lazyLoadNFO_loaded(LoadPtr(w, pc[w].entity)) THEN "enrich" ELSE "open"]
    /\ UNCHANGED <<nfoFile, nfoPtr, nfoObj, pending, requests, nfoRead, response>>

\* lazyLoadNFO, os.Open and *n = decodeNfo(file): the stores to the fields
\* of the new Nfo and the store to the pointer are issued; nothing orders
\* their arrival in memory
LazyLoadOpen(w) ==
    /\ pc[w].at = "open"
    /\ pending' = IF nfoFile[pc[w].entity].exists
                  THEN [pending EXCEPT ![w] =
                           @ \cup ({pc[w].entity} \X (NfoFields \cup {"ptr"}))]
                  ELSE pending
    /\ pc' = [pc EXCEPT ![w].at = "enrich"]
    /\ UNCHANGED <<nfoFile, nfoPtr, nfoObj, requests, nfoRead, response>>

\* a store of worker w reaches memory
StoreArrives(w) ==
    \E st \in pending[w] :
        /\ pending' = [pending EXCEPT ![w] = @ \ {st}]
        /\ IF st[2] = "ptr"
           THEN /\ nfoPtr' = [nfoPtr EXCEPT ![st[1]] = w]
                /\ UNCHANGED nfoObj
           ELSE /\ nfoObj' = [nfoObj EXCEPT ![w][st[1]][st[2]] =
                                 decodeNfo(nfoFile[st[1]])[st[2]]]
                /\ UNCHANGED nfoPtr
        /\ UNCHANGED <<nfoFile, pc, requests, nfoRead, response>>

\* buildJFItemEpisode after a lazyLoadNFO: if the Nfo is there, the record
\* takes its fields; after the show's pass the ratings are removed and the
\* episode's pass begins
EnrichResponse(w) ==
    /\ pc[w].at = "enrich"
    /\ LET e == pc[w].entity
           n == LoadPtr(w, e)
           nfo == IF n # 0 THEN LoadNfo(w, n, e) ELSE ZeroNfo
           enriched == IF n # 0 THEN enrichResponseWithNFO(response[w], nfo)
                       ELSE response[w]
       IN  /\ nfoRead' = [nfoRead EXCEPT ![w][e] =
                              [attached |-> n # 0, Mpaa |-> nfo.Mpaa,
                               Rating |-> nfo.Rating]]
           /\ response' = [response EXCEPT ![w] =
                               IF e = "show" THEN removeRatings(enriched) ELSE enriched]
           /\ pc' = [pc EXCEPT ![w] =
                         IF e = "show" THEN [at |-> "check", entity |-> "episode"]
                         ELSE [at |-> "respond", entity |-> "episode"]]
    /\ UNCHANGED <<nfoFile, nfoPtr, nfoObj, pending, requests>>

\* the handler writes the record to the connection, which takes the
\* connection's locks: the worker's stores have reached memory by then
ServeResponse(w) ==
    /\ pc[w].at = "respond"
    /\ pending[w] = {}
    /\ pc' = [pc EXCEPT ![w].at = "done"]
    /\ UNCHANGED <<nfoFile, nfoPtr, nfoObj, pending, requests, nfoRead, response>>

NfoOthers == <<lookupVars, filterVars, sortVars, pageVars, itemsVars, mediaVars, snapVars, imageVars, mergeVars>>

NfoNext ==
    \/ \E w \in Workers : BeginRequest(w) /\ UNCHANGED NfoOthers
    \/ \E w \in Workers : LazyLoadCheck(w) /\ UNCHANGED NfoOthers
    \/ \E w \in Workers : LazyLoadOpen(w) /\ UNCHANGED NfoOthers
    \/ \E w \in Workers : StoreArrives(w) /\ UNCHANGED NfoOthers
    \/ \E w \in Workers : EnrichResponse(w) /\ UNCHANGED NfoOthers
    \/ \E w \in Workers : ServeResponse(w) /\ UNCHANGED NfoOthers

NfoInit == NfoStart /\ LookupIdle /\ FilterIdle /\ SortIdle /\ PageIdle /\ ItemsIdle /\ MediaIdle /\ SnapIdle /\ ImageIdle /\ MergeIdle

SpecNfo == NfoInit /\ [][NfoNext]_vars

\* C3: a request that observes an entity's Descriptor as attached observes
\* the fully parsed value, never a partially filled one.
C3_FullyParsed ==
    \A w \in Workers : \A e \in Entities :
        nfoRead[w][e].attached
            => /\ nfoRead[w][e].Mpaa = decodeNfo(nfoFile[e]).Mpaa
               /\ nfoRead[w][e].Rating = decodeNfo(nfoFile[e]).Rating

\* the attached Descriptor of e as memory holds it
Attached(e) == [ptr |-> nfoPtr[e], nfo |-> nfoObj[nfoPtr[e]][e]]

\* C5: once an entity has an attached Descriptor, no attach call of any
\* request replaces or modifies the attached value.
C5_AttachedOnce ==
    [][\A e \in Entities : nfoPtr[e] # 0 => Attached(e)' = Attached(e)]_vars

\* the first-time loads of e have finished: a Descriptor is attached, no
\* worker is past the nil test and about to parse, and every store to the
\* Descriptor has reached memory
LoadsFinished(e) ==
    /\ nfoPtr[e] # 0
    /\ \A w \in Workers :
          /\ ~(pc[w].at = "open" /\ pc[w].entity = e)
          /\ \A st \in pending[w] : st[1] # e

\* once the loads of e have finished, every worker that reads the Descriptor
\* of e finds it attached and reads the content of the parsed file
SettledContent ==
    \A e \in Entities :
        (nfoFile[e].exists /\ LoadsFinished(e))
            => \A w \in Workers :
                   /\ LoadPtr(w, e) # 0
                   /\ LoadNfo(w, LoadPtr(w, e), e) = decodeNfo(nfoFile[e])

C6_NoShowRatings ==
    \A w \in Workers :
        (/\ pc[w].at \in {"respond", "done"}
         /\ \/ ~nfoFile["episode"].exists
            \/ /\ nfoFile["episode"].Mpaa = <<>>
               /\ nfoFile["episode"].Rating = 0)
            => /\ response[w].OfficialRating = <<>>
               /\ response[w].CommunityRating = 0

\* C6 witness: a served record whose request read the show's descriptor
\* with its age rating and rating, and an episode descriptor without either
C6_Witness ==
    \E w \in Workers :
        /\ pc[w].at = "done"
        /\ nfoRead[w]["show"] = [attached |-> TRUE, Mpaa |-> <<"T","V","-","1","4">>, Rating |-> 812]
        /\ nfoRead[w]["episode"] = [attached |-> TRUE, Mpaa |-> <<>>, Rating |-> 0]
        /\ response[w] = NewResponse

\* C18 as stated: after the passes over the show's and the episode's
\* descriptor the episode record's age rating is empty and its community
\* rating is zero, whatever either descriptor contains.
C18_ClearedAfterBoth ==
    \A w \in Workers :
        pc[w].at \in {"respond", "done"}
            => /\ response[w].OfficialRating = <<>>
               /\ response[w].CommunityRating = 0

\* C18 as the code has it: the ratings are cleared between the two passes,
\* so the finished episode record carries the age rating and the rounded
\* rating of the episode's own descriptor as the request read it (empty and
\* zero when it has none), and never those of the show's descriptor.
C18_EpisodeRatingsOnly ==
    \A w \in Workers :
        pc[w].at \in {"respond", "done"}
            => /\ response[w].OfficialRating = nfoRead[w]["episode"].Mpaa
               /\ response[w].CommunityRating
                      = RoundToTenth(nfoRead[w]["episode"].Rating)

\* C18 witness: a served record whose request read both descriptors with
\* their ratings and carries the episode's
C18_Witness ==
    \E w \in Workers :
        /\ pc[w].at = "done"
        /\ nfoRead[w]["show"] = [attached |-> TRUE, Mpaa |-> <<"T","V","-","1","4">>, Rating |-> 812]
        /\ nfoRead[w]["episode"] = [attached |-> TRUE, Mpaa |-> <<"P","G">>, Rating |-> 745]
        /\ response[w] = [OfficialRating |-> <<"P","G">>, CommunityRating |-> 750]

\* ---------------------------------------------- jellyfin.go buildMediaSource

\* a JFMediaStreams value with every field at its zero value
ZeroStream ==
    [Type |-> <<>>, Language |-> <<>>, Codec |-> <<>>, CodecTag |-> <<>>,
     Title |-> <<>>, ChannelLayout |-> <<>>, Channels |-> 0, DisplayTitle |-> <<>>]

\* buildMediaSource, the switch on strings.ToLower(NfoVideo.Codec), applied
\* to a stream whose Codec is NfoVideo.Codec
videoCodec(codec) ==
    IF ToLower(codec) \in {<<"x","2","6","4">>, <<"h","2","6","4">>}
    THEN [Codec |-> <<"h","2","6","4">>, CodecTag |-> <<"a","v","c","1">>]
    ELSE IF ToLower(codec) = <<"h","e","v","c">>
    THEN [Codec |-> <<"h","e","v","c">>, CodecTag |-> <<"h","v","c","1">>]
    ELSE [Codec |-> codec, CodecTag |-> <<>>]

\* buildMediaSource, the switch on NfoAudio.Channels
audioChannels(channels) ==
    IF channels = 2 THEN [Title |-> <<"S","t","e","r","e","o">>, ChannelLayout |-> <<"s","t","e","r","e","o">>]
    ELSE IF channels = 6 THEN [Title |-> <<"5",".","1"," ","C","h","a","n","n","e","l">>, ChannelLayout |-> <<"5",".","1">>]
    ELSE [Title |-> <<>>, ChannelLayout |-> <<>>]

\* buildMediaSource, the switch on strings.ToLower(NfoAudio.Codec): the
\* audio stream is built without a codec, and only the two cases set one
audioCodec(codec) ==
    IF ToLower(codec) = <<"a","c","3">> THEN [Codec |-> <<"a","c","3">>, CodecTag |-> <<"a","c","-","3">>]
    ELSE IF ToLower(codec) = <<"a","a","c">> THEN [Codec |-> <<"a","a","c">>, CodecTag |-> <<"m","p","4","a">>]
    ELSE [Codec |-> <<>>, CodecTag |-> <<>>]

\* buildMediaSource: [outcome, sources].  Language[0:3] is a slice of the
\* first three bytes, and a run-time panic when there are fewer
buildMediaSource(n) ==
    IF ~n.present \/ ~n.streamDetails
    THEN [outcome |-> "ok", sources |-> <<[Container |-> <<"m","p","4">>, MediaStreams |-> <<>>]>>]
    ELSE IF Len(n.Audio.Language) < 3
    THEN [outcome |-> "panic", sources |-> <<>>]
    ELSE LET language == SubSeq(n.Audio.Language, 1, 3)
             video == videoCodec(n.Video.Codec)
             videostream == [ZeroStream EXCEPT !.Type = <<"V","i","d","e","o">>,
                                               !.Language = language,
                                               !.Codec = video.Codec,
                                               !.CodecTag = video.CodecTag]
             layout == audioChannels(n.Audio.Channels)
             audio == audioCodec(n.Audio.Codec)
             audiostream == [ZeroStream EXCEPT !.Type = <<"A","u","d","i","o">>,
                                               !.Language = language,
                                               !.Channels = n.Audio.Channels,
                                               !.Title = layout.Title,
                                               !.ChannelLayout = layout.ChannelLayout,
                                               !.Codec = audio.Codec,
                                               !.CodecTag = audio.CodecTag,
                                               !.DisplayTitle =
                                                   layout.Title \o <<" ","-"," ">>
                                                       \o ToUpper(audio.Codec)]
         IN  [outcome |-> "ok",
              sources |-> <<[Container |-> <<"m","p","4">>,
                             MediaStreams |-> <<videostream, audiostream>>]>>]

\* lazyLoadNFO when a failed load attaches an empty Nfo
lazyLoadNFO_attachesEmpty(n, file, content) ==
    IF n.present THEN n
    ELSE IF file = "parsed" THEN content
    ELSE [NoNfo EXCEPT !.present = TRUE]

\* lazyLoadNFO as one request runs it: the Nfo the entity has afterwards.
\* os.Open fails on a missing file; decodeNfo gives nil for a file that
\* does not parse
lazyLoadNFO(n, file, content) ==
    IF n.present THEN n
    ELSE IF file = "missing" THEN n
    ELSE IF file = "parsed" THEN content
    ELSE NoNfo

\* enrichResponseWithNFO, the first lines: nothing for a nil Nfo, else the
\* name is the descriptor's title
enrichTitle(r, n) == IF ~n.present THEN r ELSE [r EXCEPT !.Name = n.Title]

\* buildJFItem for a movie: [outcome, record, Nfo], Nfo the one the Item
\* has afterwards
buildJFItemMovie(i, file, content) ==
    LET nfo == lazyLoadNFO(i.Nfo, file, content)
        built == buildMediaSource(nfo)
        defaults == [Name |-> i.Name, OfficialRating |-> <<>>,
                     CommunityRating |-> 0, MediaSources |-> built.sources]
    IN  IF built.outcome = "panic"
        THEN [outcome |-> "panic", record |-> NoRecord, Nfo |-> nfo]
        ELSE [outcome |-> "ok",
              record |-> IF nfo.present
                         THEN enrichResponseWithNFO(enrichTitle(defaults, nfo), nfo)
                         ELSE defaults,
              Nfo |-> nfo]

\* ---------------------------------------------------- media source behaviour

VideoCodecs ==
    {<<"x","2","6","4">>, <<"X","2","6","4">>, <<"h","2","6","4">>, <<"H","2","6","4">>, <<"h","e","v","c">>, <<"H","E","V","C">>, <<"H","e","V","c">>, <<"v","p","9">>, <<"V","P","9">>,
     <<"h","2","6","5">>, <<>>}

AudioCodecs == {<<"a","c","3">>, <<"A","A","C">>, <<"d","t","s">>, <<>>}

AudioChannels == {0, 2, 6}

\* the audio languages: the first letters of "english", none to MaxLanguageLen
Languages == {SubSeq(<<"e","n","g","l","i","s","h">>, 1, k) : k \in 0..MaxLanguageLen}

\* the descriptors a file parses to: without and with technical info
ParsedNfos ==
    {[NoNfo EXCEPT !.present = TRUE, !.Title = <<"A","l","i","e","n","s">>, !.Mpaa = <<"P","G">>,
                   !.Rating = 745]} \cup
    [present : {TRUE}, Title : {<<"A","l","i","e","n","s">>}, Mpaa : {<<"P","G">>}, Rating : {745},
     streamDetails : {TRUE},
     Video : [Codec : VideoCodecs],
     Audio : [Language : Languages, Codec : AudioCodecs, Channels : AudioChannels]]

\* a movie whose descriptor file is missing, does not parse, or parses; an
\* earlier request may have attached the parsed descriptor already
MediaStart ==
    /\ mediaFile \in {"missing", "unparseable", "parsed"}
    /\ mediaNfo \in IF mediaFile = "parsed" THEN ParsedNfos ELSE {NoNfo}
    /\ mediaItem \in {[Name |-> <<"A","l","i","e","n">>, Nfo |-> n] : n \in {NoNfo, mediaNfo}}
    /\ mediaResult = [outcome |-> "none", status |-> 0, record |-> NoRecord]

\* jellyfin.go usersItemHandler for the id of a movie: buildJFItem and
\* serveJSON; a panic ends the request without a response
UsersItemMovie ==
    /\ mediaResult.outcome = "none"
    /\ LET built == buildJFItemMovie(mediaItem, mediaFile, mediaNfo)
       IN  /\ mediaItem' = [mediaItem EXCEPT !.Nfo = built.Nfo]
           /\ mediaResult' = [outcome |-> built.outcome,
                              status |-> IF built.outcome = "ok" THEN 200 ELSE 0,
                              record |-> built.record]
    /\ UNCHANGED <<mediaFile, mediaNfo>>

MediaOthers == <<lookupVars, filterVars, sortVars, pageVars, itemsVars, nfoVars, snapVars, imageVars, mergeVars>>

MediaNext == UsersItemMovie /\ UNCHANGED MediaOthers

MediaInit == MediaStart /\ LookupIdle /\ FilterIdle /\ SortIdle /\ PageIdle /\ ItemsIdle /\ NfoIdle /\ SnapIdle /\ ImageIdle /\ MergeIdle

SpecMedia == MediaInit /\ [][MediaNext]_vars

\* the video stream of the one source of a finished request
VideoStream == mediaResult.record.MediaSources[1].MediaStreams[1]

\* the codec and tag the video stream is to carry for a descriptor codec
ExpectedVideo(codec) ==
    IF ToLower(codec) \in {<<"x","2","6","4">>, <<"h","2","6","4">>} THEN <<<<"h","2","6","4">>, <<"a","v","c","1">>>>
    ELSE IF ToLower(codec) = <<"h","e","v","c">> THEN <<<<"h","e","v","c">>, <<"h","v","c","1">>>>
    ELSE <<codec, <<>>>>

\* C11: for a descriptor with technical info, the request succeeds and the
\* video stream carries codec h264 with tag avc1 for "x264" and "h264" in
\* any letter case, hevc with hvc1 for "hevc", and any other codec
\* unchanged with no tag.
C11_VideoCodec ==
    (mediaResult.outcome # "none" /\ mediaItem.Nfo.streamDetails)
        => /\ mediaResult.outcome = "ok"
           /\ <<VideoStream.Codec, VideoStream.CodecTag>>
                  = ExpectedVideo(mediaItem.Nfo.Video.Codec)

\* the same over the descriptors whose audio language has three characters
\* or more
VideoCodecWhenBuilt ==
    (mediaResult.outcome = "ok" /\ mediaItem.Nfo.streamDetails)
        => <<VideoStream.Codec, VideoStream.CodecTag>>
               = ExpectedVideo(mediaItem.Nfo.Video.Codec)

\* C12: when the descriptor file cannot be opened or does not parse, the
\* entity is left without a Descriptor and the request returns the record
\* with its default fields and a success outcome.
C12_FailedLoad ==
    (mediaResult.outcome # "none" /\ mediaFile # "parsed")
        => /\ ~mediaItem.Nfo.present
           /\ mediaResult.outcome = "ok"
           /\ mediaResult.status = 200
           /\ mediaResult.record =
                  [Name |-> mediaItem.Name, OfficialRating |-> <<>>,
                   CommunityRating |-> 0,
                   MediaSources |-> <<[Container |-> <<"m","p","4">>, MediaStreams |-> <<>>]>>]

\* C12 witness: a served movie record with the item's own name and a bare
\* media source, the descriptor file being there but not parseable
C12_Witness ==
    /\ mediaFile = "unparseable"
    /\ mediaResult.status = 200
    /\ mediaResult.record.Name = <<"A","l","i","e","n">>
    /\ mediaResult.record.MediaSources[1].MediaStreams = <<>>
    /\ ~mediaItem.Nfo.present

\* C24: building the media sources never fails and gives exactly one source,
\* whether the descriptor is absent, has no technical info, or has technical
\* info with an audio language of any length.
C24_OneSource ==
    mediaResult.outcome # "none"
        => /\ mediaResult.outcome = "ok"
           /\ Len(mediaResult.record.MediaSources) = 1

\* the part of C24 that the code keeps: one source whenever the descriptor
\* is absent, has no technical info, or has an audio language of three
\* characters or more
OneSourceWhenLanguageLong ==
    (/\ mediaResult.outcome # "none"
     /\ \/ ~mediaItem.Nfo.streamDetails
        \/ Len(mediaItem.Nfo.Audio.Language) >= 3)
        => /\ mediaResult.outcome = "ok"
           /\ Len(mediaResult.record.MediaSources) = 1

\* the audio stream of the one source of a finished request
AudioStream == mediaResult.record.MediaSources[1].MediaStreams[2]

\* the codec and tag the audio stream is to carry for a descriptor codec
ExpectedAudio(codec) ==
    IF ToLower(codec) = <<"a","c","3">> THEN <<<<"a","c","3">>, <<"a","c","-","3">>>>
    ELSE IF ToLower(codec) = <<"a","a","c">> THEN <<<<"a","a","c">>, <<"m","p","4","a">>>>
    ELSE <<codec, <<>>>>

\* C25: in a source built from technical info the audio stream carries
\* codec ac3 with tag ac-3 for "ac3", aac with mp4a for "aac", and any other
\* codec unchanged.
C25_AudioCodec ==
    (mediaResult.outcome = "ok" /\ mediaItem.Nfo.streamDetails)
        => <<AudioStream.Codec, AudioStream.CodecTag>>
               = ExpectedAudio(mediaItem.Nfo.Audio.Codec)

\* the part of C25 that the code keeps: the two known codecs
AudioCodecKnown ==
    (/\ mediaResult.outcome = "ok" /\ mediaItem.Nfo.streamDetails
     /\ ToLower(mediaItem.Nfo.Audio.Codec) \in {<<"a","c","3">>, <<"a","a","c">>})
        => <<AudioStream.Codec, AudioStream.CodecTag>>
               = ExpectedAudio(mediaItem.Nfo.Audio.Codec)

\* ------------------------------------------------ listing during a rescan

\* Collections.Background, a rescan: the library index publishes a new
\* snapshot in place of the one it held
Rescan ==
    /\ library.version < MaxRescans
    /\ \E cs \in Catalogs :
          /\ Len(cs[1].Items) + Len(cs[2].Items) <= MaxItems
          /\ library' = [version |-> library.version + 1, collections |-> cs]
    /\ UNCHANGED <<snapRequest, snapPc, snapScope, snapResponse>>

\* usersItemsHandler and usersItemsLatestHandler, "if searchCollection != """:
\* j.collections.GetCollection on the snapshot the index holds now
ResolveScope ==
    /\ snapPc = "scope"
    /\ LET searchC == searchCollection(library.collections, snapRequest)
       IN  snapScope' = [found |-> searchC.found, SourceId |-> searchC.SourceId,
                         version |-> library.version]
    /\ snapPc' = "list"
    /\ UNCHANGED <<library, snapRequest, snapResponse>>

\* usersItemsHandler from "for _, c := range j.collections.GetCollections()"
\* on: the collections of the snapshot the index holds now
UsersItemsList ==
    /\ snapPc = "list"
    /\ snapRequest.handler = "usersItems"
    /\ snapResponse' =
           [response |-> listingOf("usersItems", library.collections, snapScope,
                                   snapRequest),
            version |-> library.version]
    /\ snapPc' = "done"
    /\ UNCHANGED <<library, snapRequest, snapScope>>

\* usersItemsLatestHandler from the same loop on
UsersItemsLatestList ==
    /\ snapPc = "list"
    /\ snapRequest.handler = "usersItemsLatest"
    /\ snapResponse' =
           [response |-> latestOf(library.collections, snapScope, snapRequest),
            version |-> library.version]
    /\ snapPc' = "done"
    /\ UNCHANGED <<library, snapRequest, snapScope>>

SnapStart ==
    /\ library \in {[version |-> 0, collections |-> cs] :
                        cs \in {c \in Catalogs :
                                   Len(c[1].Items) + Len(c[2].Items) <= MaxItems}}
    /\ snapRequest \in
           [handler : {"usersItems", "usersItemsLatest"},
            parentId : {<<>>, <<"c","o","l","l","e","c","t","i","o","n","_","1">>, <<"c","o","l","l","e","c","t","i","o","n","_","2">>},
            searchTerm : {<<>>}, includeItemTypes : {<<>>, <<"M","o","v","i","e">>},
            years : {<<>>}, sortBy : {<<>>}, sortOrder : {<<>>},
            startIndex : {<<>>}, limit : {<<>>}]
    /\ snapPc = "scope"
    /\ snapScope = [found |-> FALSE, SourceId |-> 0, version |-> 0]
    /\ snapResponse = [response |-> NoItemsResponse, version |-> 0]

SnapOthers == <<lookupVars, filterVars, sortVars, pageVars, itemsVars, nfoVars, mediaVars, imageVars, mergeVars>>

SnapNext ==
    \/ Rescan /\ UNCHANGED SnapOthers
    \/ ResolveScope /\ UNCHANGED SnapOthers
    \/ UsersItemsList /\ UNCHANGED SnapOthers
    \/ UsersItemsLatestList /\ UNCHANGED SnapOthers

SnapInit == SnapStart /\ LookupIdle /\ FilterIdle /\ SortIdle /\ PageIdle /\ ItemsIdle /\ NfoIdle /\ MediaIdle /\ ImageIdle /\ MergeIdle

SpecSnap == SnapInit /\ [][SnapNext]_vars

\* C14: a listing request that resolves a collection scope enumerates its
\* items from the snapshot it resolved the scope in, also when rescans
\* replace the library while the request is in flight.
C14_OneSnapshot ==
    (snapPc = "done" /\ snapRequest.parentId # <<>>)
        => snapResponse.version = snapScope.version

\* ------------------------------------------------------- image retrieval

tagprefix_redirect == <<"r","e","d","i","r","e","c","t","_">>

tagprefix_file == <<"f","i","l","e","_">>

\* the image library: the show ShowId with poster and fanart, its season and
\* the season's episode, each with the path of its artwork
ImageSeasonId == <<"a">>

ImageEpisodeId == <<"e">>

ItemPoster == <<"p">>

ItemFanart == <<"b">>

SeasonPoster == <<"s">>

EpisodeThumb == <<"t">>

\* a response that was never written to: net/http answers 200 with an empty
\* body when the handler returns
Unwritten == [status |-> 200, cacheControl |-> FALSE, location |-> <<>>, served |-> <<>>]

\* http.Error on a response with the headers set so far
httpError(rw, code) == [rw EXCEPT !.status = code]

\* serveFile, serveImage: the file's content, or 404 when it cannot be opened
serveFile(rw, filename, disk) ==
    IF filename \in disk
    THEN [rw EXCEPT !.status = 200, !.served = filename]
    ELSE httpError(rw, 404)

\* Collections.GetSeasonByID, Collections.GetEpisodeByID by internal id
GetSeasonByID(seasonId) == [found |-> seasonId = ImageSeasonId, Poster |-> SeasonPoster]

GetEpisodeByID(episodeId) == [found |-> episodeId = ImageEpisodeId, Thumb |-> EpisodeThumb]

\* jellyfin.go getSeasonByID, getEpisodeByID over the image library: trim the
\* type prefix, then search
main_GetSeasonByID(saesonId) == GetSeasonByID(TrimPrefix(saesonId, itemprefix_season))

getEpisodeByID(episodeId) == GetEpisodeByID(TrimPrefix(episodeId, itemprefix_episode))

\* the tag branches both handlers start with: a redirect to the rest of the
\* tag, or the rest of the tag served as a file
imageByTag(tag, disk) ==
    IF HasPrefix(tag, tagprefix_redirect)
    THEN [Unwritten EXCEPT !.cacheControl = TRUE, !.status = 302,
                           !.location = TrimPrefix(tag, tagprefix_redirect)]
    ELSE serveFile([Unwritten EXCEPT !.cacheControl = TRUE],
                   TrimPrefix(tag, tagprefix_file), disk)

\* the plain-item branch both handlers end with
imageOfItem(itemId, imageType, disk) ==
    IF ~getItemByID(itemId).found THEN httpError(Unwritten, 404)
    ELSE IF imageType = "Primary"
         THEN serveFile([Unwritten EXCEPT !.cacheControl = TRUE], ItemPoster, disk)
    ELSE IF imageType = "Backdrop"
         THEN serveFile([Unwritten EXCEPT !.cacheControl = TRUE], ItemFanart, disk)
    ELSE httpError(Unwritten, 404)

\* item.go itemsImagesHandler
itemsImagesHandler(tag, itemId, imageType, disk) ==
    LET splitted == Split(itemId, itemprefix_separator)
    IN  IF HasPrefix(tag, tagprefix_redirect) \/ HasPrefix(tag, tagprefix_file)
        THEN imageByTag(tag, disk)
        ELSE IF Len(splitted) = 2
        THEN CASE splitted[1] = <<"s","e","a","s","o","n">> ->
                    IF ~GetSeasonByID(trimPrefix(itemId)).found
                    THEN httpError(Unwritten, 404)
                    ELSE IF imageType = "Primary"
                         THEN serveFile([Unwritten EXCEPT !.cacheControl = TRUE],
                                        GetSeasonByID(trimPrefix(itemId)).Poster, disk)
                         ELSE Unwritten
               [] splitted[1] = <<"e","p","i","s","o","d","e">> ->
                    IF ~GetEpisodeByID(trimPrefix(itemId)).found
                    THEN httpError(Unwritten, 404)
                    ELSE serveFile(Unwritten, GetEpisodeByID(trimPrefix(itemId)).Thumb, disk)
               [] OTHER -> httpError(Unwritten, 500)
        ELSE imageOfItem(itemId, imageType, disk)

\* jellyfin.go itemsImagesHandler
main_itemsImagesHandler(tag, itemId, imageType, disk) ==
    LET splitted == Split(itemId, itemprefix_separator)
    IN  IF HasPrefix(tag, tagprefix_redirect) \/ HasPrefix(tag, tagprefix_file)
        THEN imageByTag(tag, disk)
        ELSE IF Len(splitted) = 2
        THEN CASE splitted[1] = <<"s","e","a","s","o","n">> ->
                    IF ~main_GetSeasonByID(itemId).found
                    THEN httpError(Unwritten, 404)
                    ELSE IF imageType = "Primary"
                         THEN serveFile(Unwritten, main_GetSeasonByID(itemId).Poster, disk)
                         ELSE Unwritten
               [] splitted[1] = <<"e","p","i","s","o","d","e">> ->
                    IF ~getEpisodeByID(itemId).found
                    THEN httpError(Unwritten, 404)
                    ELSE serveFile(Unwritten, getEpisodeByID(itemId).Thumb, disk)
               [] OTHER -> httpError(Unwritten, 500)
        ELSE imageOfItem(itemId, imageType, disk)

\* -------------------------------------------- image retrieval behaviour

\* the tags, ids and image kinds requests carry
ImageTags == {<<>>, <<"r","e","d","i","r","e","c","t","_","u">>, <<"f","i","l","e","_","f">>, <<"f","i","l","e","_","g">>}

ImageItemIds ==
    {ShowId, <<"z","z">>, <<"s","e","a","s","o","n","_","a">>, <<"s","e","a","s","o","n","_","z">>, <<"e","p","i","s","o","d","e","_","e">>, <<"e","p","i","s","o","d","e","_","z">>,
     <<"b","o","g","u","s","_","a">>, <<"s","e","a","s","o","n","_","a","_","b">>}

ImageTypes == {"Primary", "Backdrop", "Logo"}

\* what can be on disk: every artwork file and the tagged file f, or any one
\* of them missing
AllImageFiles == {ItemPoster, ItemFanart, SeasonPoster, EpisodeThumb, <<"f">>}

ImageDisks == {AllImageFiles} \cup {AllImageFiles \ {f} : f \in AllImageFiles}

ImageStart ==
    /\ imageDisk \in ImageDisks
    /\ imageRequest = NoImageRequest
    /\ imageResponse = NoImageResponse

\* GET /Items/{item}/Images/{type} served by item.go
ItemsImagesRequest ==
    \E tag \in ImageTags : \E itemId \in ImageItemIds : \E type \in ImageTypes :
        /\ imageRequest' = [handler |-> "jellyfin", tag |-> tag, itemId |-> itemId, type |-> type]
        /\ imageResponse' = itemsImagesHandler(tag, itemId, type, imageDisk)
        /\ UNCHANGED imageDisk

\* GET /Items/{item}/Images/{type} served by jellyfin.go
MainItemsImagesRequest ==
    \E tag \in ImageTags : \E itemId \in ImageItemIds : \E type \in ImageTypes :
        /\ imageRequest' = [handler |-> "main", tag |-> tag, itemId |-> itemId, type |-> type]
        /\ imageResponse' = main_itemsImagesHandler(tag, itemId, type, imageDisk)
        /\ UNCHANGED imageDisk

ImageOthers == <<lookupVars, filterVars, sortVars, pageVars, itemsVars, nfoVars, mediaVars, snapVars, mergeVars>>

ImageNext ==
    \/ ItemsImagesRequest /\ UNCHANGED ImageOthers
    \/ MainItemsImagesRequest /\ UNCHANGED ImageOthers

ImageInit == ImageStart /\ LookupIdle /\ FilterIdle /\ SortIdle /\ PageIdle /\ ItemsIdle /\ NfoIdle /\ MediaIdle /\ SnapIdle /\ MergeIdle

SpecImage == ImageInit /\ [][ImageNext]_vars

\* the entity an image request's id names: a season, an episode or a plain
\* item of the library, or none
ImageEntity(itemId) ==
    IF HasPrefix(itemId, itemprefix_season)
    THEN IF TrimPrefix(itemId, itemprefix_season) = ImageSeasonId THEN "season" ELSE "none"
    ELSE IF HasPrefix(itemId, itemprefix_episode)
    THEN IF TrimPrefix(itemId, itemprefix_episode) = ImageEpisodeId THEN "episode" ELSE "none"
    ELSE IF itemId = ShowId THEN "item" ELSE "none"

\* the image kinds an entity has artwork for
KnownImageTypes(entity) ==
    CASE entity = "item" -> {"Primary", "Backdrop"}
      [] entity = "season" -> {"Primary"}
      [] entity = "episode" -> {"Primary"}
      [] OTHER -> {}

\* the id is a season id, an episode id or a plain-item id
ImageIdOfKnownKind(itemId) ==
    \/ HasPrefix(itemId, itemprefix_season)
    \/ HasPrefix(itemId, itemprefix_episode)
    \/ Index(itemId, itemprefix_separator) = 0

\* an image request without redirect or file tag was served
UntaggedImageServed ==
    /\ imageRequest.handler # ""
    /\ ~HasPrefix(imageRequest.tag, tagprefix_redirect)
    /\ ~HasPrefix(imageRequest.tag, tagprefix_file)

\* C16: an image request whose tag has neither the redirect nor the file
\* marker is answered not-found when its id (plain item, season or episode)
\* names no entity or the requested image kind is not one the named entity
\* has, and it never ends with a success status and no content.
C16_ImageNotFound ==
    UntaggedImageServed
        => /\ (/\ ImageIdOfKnownKind(imageRequest.itemId)
                /\ imageRequest.type \notin KnownImageTypes(ImageEntity(imageRequest.itemId)))
                    => imageResponse.status = 404
           /\ ~(imageResponse.status = 200 /\ imageResponse.served = <<>>)

\* the part of C16 that the code keeps: a request for a plain item (an id
\* without separator) is answered not-found when the id names no item or the
\* image kind is not one the item has
ImageNotFoundForItems ==
    (/\ UntaggedImageServed
     /\ Len(Split(imageRequest.itemId, itemprefix_separator)) = 1
     /\ imageRequest.type \notin KnownImageTypes(ImageEntity(imageRequest.itemId)))
        => imageResponse.status = 404

\* --------------------------------------- jellyfin.go enrichResponseWithNFO

\* normalizeGenres, one name: letter case folded and the synonym replaced
normalizeGenre(genre) ==
    IF ToLower(genre) = <<"s","c","i","f","i">> THEN <<"s","c","i","e","n","c","e"," ","f","i","c","t","i","o","n">> ELSE ToLower(genre)

\* normalizeGenres: the normalized names, each once, in order of first
\* occurrence
RECURSIVE normalizeGenres(_)
normalizeGenres(genres) ==
    IF genres = <<>> THEN <<>>
    ELSE LET before == normalizeGenres(SubSeq(genres, 1, Len(genres) - 1))
             last == normalizeGenre(genres[Len(genres)])
         IN  IF \E k \in 1..Len(before) : before[k] = last
             THEN before
             ELSE Append(before, last)

\* enrichResponseWithNFO, the name, overview and tagline
enrichText(r, n) ==
    [r EXCEPT !.Name = n.Title,
              !.Overview = n.Plot,
              !.Taglines = IF n.Tagline # <<>> THEN <<n.Tagline>> ELSE @]

\* enrichResponseWithNFO, "if len(n.Genre) != 0": Genres is assigned,
\* GenreItems is appended to
enrichGenres(r, n) ==
    IF Len(n.Genre) = 0 THEN r
    ELSE LET normalizedGenres == normalizeGenres(n.Genre)
         IN  [r EXCEPT !.Genres = normalizedGenres,
                       !.GenreItems = @ \o [k \in 1..Len(normalizedGenres) |->
                                               [Name |-> normalizedGenres[k],
                                                ID |-> idHash(normalizedGenres[k])]]]

\* enrichResponseWithNFO on the text and genre fields; nothing for a nil Nfo
enrichRecord(r, n) ==
    IF ~n.present THEN r ELSE enrichGenres(enrichText(r, n), n)

\* the name of the show in the library
MergeShowName == <<"S","h","o","w">>

\* buildJFItem for the show: the record starts with the item's name
buildJFItemShow(nfo) ==
    enrichRecord([NoMergeRecord EXCEPT !.Type = "Series", !.Name = MergeShowName], nfo)

\* buildJFItemEpisode: the record starts without a name, takes the show's
\* descriptor, then the episode's
buildJFItemEpisode(showNfo, episodeNfo) ==
    enrichRecord(enrichRecord([NoMergeRecord EXCEPT !.Type = "Episode"], showNfo),
                 episodeNfo)

\* ------------------------------------------------------- merge behaviour

MergeTitles == {<<>>, <<"T">>}

MergePlots == {<<>>, <<"P">>}

MergeTaglines == {<<>>, <<"L">>}

MergeGenres == {<<>>, <<<<"D","r","a","m","a">>>>, <<<<"d","r","a","m","a">>, <<"S","c","i","F","i">>, <<"D","r","a","m","a">>>>}

\* the descriptors a file parses to, and none
MergeNfos ==
    {NoMergeNfo} \cup
    [present : {TRUE}, Title : MergeTitles, Plot : MergePlots,
     Tagline : MergeTaglines, Genre : MergeGenres]

MergeStart ==
    /\ mergeShowNfo \in MergeNfos
    /\ mergeEpisodeNfo \in MergeNfos
    /\ mergeRecord = NoMergeRecord

\* jellyfin.go usersItemHandler for the show
UsersItemShow ==
    /\ mergeRecord.Type = "none"
    /\ mergeRecord' = buildJFItemShow(mergeShowNfo)
    /\ UNCHANGED <<mergeShowNfo, mergeEpisodeNfo>>

\* jellyfin.go usersItemHandler for the episode
UsersItemEpisode ==
    /\ mergeRecord.Type = "none"
    /\ mergeRecord' = buildJFItemEpisode(mergeShowNfo, mergeEpisodeNfo)
    /\ UNCHANGED <<mergeShowNfo, mergeEpisodeNfo>>

MergeOthers == <<lookupVars, filterVars, sortVars, pageVars, itemsVars, nfoVars, mediaVars, snapVars, imageVars>>

MergeNext ==
    \/ UsersItemShow /\ UNCHANGED MergeOthers
    \/ UsersItemEpisode /\ UNCHANGED MergeOthers

MergeInit == MergeStart /\ LookupIdle /\ FilterIdle /\ SortIdle /\ PageIdle /\ ItemsIdle /\ NfoIdle /\ MediaIdle /\ SnapIdle /\ ImageIdle

SpecMerge == MergeInit /\ [][MergeNext]_vars

\* the names of the id-tagged genre list, in order
GenreItemNames == [k \in 1..Len(mergeRecord.GenreItems) |-> mergeRecord.GenreItems[k].Name]

\* C26: in every presentation record the flat genre list and the id-tagged
\* genre list hold the same names in the same order, each name once.
C26_GenreListsAgree ==
    mergeRecord.Type # "none"
        => /\ GenreItemNames = mergeRecord.Genres
           /\ \A p, r \in 1..Len(mergeRecord.Genres) :
                  p # r => mergeRecord.Genres[p] # mergeRecord.Genres[r]

\* the part of C26 that the code keeps: the record of the show, which one
\* descriptor enriches
GenreListsAgreeShow ==
    mergeRecord.Type = "Series"
        => /\ GenreItemNames = mergeRecord.Genres
           /\ \A p, r \in 1..Len(mergeRecord.Genres) :
                  p # r => mergeRecord.Genres[p] # mergeRecord.Genres[r]

\* the record as it was before the pass over the last descriptor
BeforeLastPass ==
    IF mergeRecord.Type = "Series"
    THEN [NoMergeRecord EXCEPT !.Type = "Series", !.Name = MergeShowName]
    ELSE enrichRecord([NoMergeRecord EXCEPT !.Type = "Episode"], mergeShowNfo)

\* the descriptor of the last pass
LastNfo == IF mergeRecord.Type = "Series" THEN mergeShowNfo ELSE mergeEpisodeNfo

\* C27: a descriptor whose Title, Plot or Tagline is empty leaves the
\* record's name, overview or tagline as it was before the merge.
C27_EmptyFieldsKeep ==
    (mergeRecord.Type # "none" /\ LastNfo.present)
        => /\ LastNfo.Title = <<>> => mergeRecord.Name = BeforeLastPass.Name
           /\ LastNfo.Plot = <<>> => mergeRecord.Overview = BeforeLastPass.Overview
           /\ LastNfo.Tagline = <<>> => mergeRecord.Taglines = BeforeLastPass.Taglines

\* the part of C27 that the code keeps: the tagline
EmptyTaglineKeeps ==
    (mergeRecord.Type # "none" /\ LastNfo.present /\ LastNfo.Tagline = <<>>)
        => mergeRecord.Taglines = BeforeLastPass.Taglines

\* C28: every image response that redirects or serves a local file carries
\* the cache-control header: redirect tag, file tag, season poster, episode
\* thumbnail, item poster and item backdrop alike.
C28_CacheControl ==
    (\/ imageResponse.status = 302
     \/ imageResponse.status = 200 /\ imageResponse.served # <<>>)
        => imageResponse.cacheControl

\* the part of C28 that the code keeps: redirects, tagged files and the
\* poster and backdrop of a plain item
CacheControlTagsAndItems ==
    (/\ \/ imageResponse.status = 302
        \/ imageResponse.status = 200 /\ imageResponse.served # <<>>
     /\ \/ HasPrefix(imageRequest.tag, tagprefix_redirect)
        \/ HasPrefix(imageRequest.tag, tagprefix_file)
        \/ Index(imageRequest.itemId, itemprefix_separator) = 0)
        => imageResponse.cacheControl

====
